---- MODULE Spec2Model ----
(***************************************************************************)
(* Model of the MAT-file reader florianl/matf: the file facade of          *)
(* src/matf.go (lines 1-418) together with the decoders it is compiled     *)
(* with, src/unnamed/part_003 (lines 1-186, the []byte revision of         *)
(* datatypes.go that src/datatypes_test.go exercises).                     *)
(*                                                                         *)
(* Go values are modelled as follows.                                      *)
(*  - a byte is a number 0..255, a []byte is a slice record                *)
(*    [a, lo, hi, cp]: backing array a, the bytes a[lo+1..hi], capacity    *)
(*    end cp.  s[x:y] is checked against the capacity and s[x:], s[i]      *)
(*    against the length, as the Go runtime does;                          *)
(*  - a run-time panic (slice bounds, nil interface, reflect, division by  *)
(*    zero) is the outcome st = "panic"; a loop that never advances is the *)
(*    outcome st = "hang";                                                 *)
(*  - an error value is a record [kind, code];                             *)
(*  - a decoded scalar is a record [k, v] with k the Go type; 64-bit       *)
(*    values are the tuple of their 8 bytes, most significant first.       *)
(***************************************************************************)
EXTENDS Integers, Sequences, FiniteSets, TLC

VARIABLES doc, file, pos, handle, byteSwapping, endianIndicator, calls, rets, unit

vars == <<doc, file, pos, handle, byteSwapping, endianIndicator, calls, rets, unit>>

(***************************************************************************)
(* Bounds of the model.                                                    *)
(***************************************************************************)
MaxItems == 2
MaxCalls == 3
MaxVals == 2
MaxFields == 2
MaxNameLength == 4
MaxRead == 5

(***************************************************************************)
(* Program constants.                                                      *)
(***************************************************************************)
MiInt8 == 1
MiUint8 == 2
MiInt16 == 3
MiUint16 == 4
MiInt32 == 5
MiUint32 == 6
MiSingle == 7
MiDouble == 9
MiInt64 == 12
MiUint64 == 13
MiMatrix == 14
MiCompressed == 15
MiUtf8 == 16
MiUtf16 == 17
MiUtf32 == 18

MxCellClass == 1
MxStructClass == 2
MxCharClass == 4
MxDoubleClass == 6
MxSingleClass == 7
MxInt8Class == 8
MxUint8Class == 9
MxInt16Class == 10
MxUint16Class == 11
MxInt32Class == 12
MxUint32Class == 13
MxInt64Class == 14
MxUint64Class == 15

ClassMask == 15
FlagComplex == 2048
HeaderSize == 128
MinRead == 512

(***************************************************************************)
(* Arithmetic helpers.                                                     *)
(***************************************************************************)
Min(a, b) == IF a < b THEN a ELSE b

Zeros(n) == [i \in 1..n |-> 0]

Bit(n, k) == (n \div k) % 2

(***************************************************************************)
(* Go slices.                                                              *)
(***************************************************************************)
MkSlice(bytes) == [a |-> bytes, lo |-> 0, hi |-> Len(bytes), cp |-> Len(bytes)]

MkSliceCap(bytes, slack) ==
  [a |-> bytes \o Zeros(slack), lo |-> 0, hi |-> Len(bytes), cp |-> Len(bytes) + slack]

SLen(s) == s.hi - s.lo

SCap(s) == s.cp - s.lo

SBytes(s) == SubSeq(s.a, s.lo + 1, s.hi)

At(s, i) == s.a[s.lo + i + 1]

\* s[x:] is legal when 0 <= x <= len(s)
OkFrom(s, x) == 0 <= x /\ x <= SLen(s)

From(s, x) == [s EXCEPT !.lo = s.lo + x]

\* s[x:y] is legal when 0 <= x <= y <= cap(s)
OkSub(s, x, y) == 0 <= x /\ x <= y /\ y <= SCap(s)

Sub(s, x, y) == [s EXCEPT !.lo = s.lo + x, !.hi = s.lo + y]

(***************************************************************************)
(* encoding/binary byte orders.  The arguments are slices of the exact     *)
(* width, or wider; the functions panic when the slice is shorter, which   *)
(* the callers test with SLen.                                             *)
(***************************************************************************)
\* a 16-bit read that ignores the byte order
Uint16Little(order, s) == At(s, 0) + 256 * At(s, 1)

Uint16(order, s) ==
  IF order = "LE" THEN At(s, 0) + 256 * At(s, 1)
                  ELSE At(s, 1) + 256 * At(s, 0)

Uint32(order, s) ==
  IF order = "LE"
    THEN At(s, 0) + 256 * At(s, 1) + 65536 * At(s, 2) + 16777216 * At(s, 3)
    ELSE At(s, 3) + 256 * At(s, 2) + 65536 * At(s, 1) + 16777216 * At(s, 0)

\* int32(order.Uint32(b)): two's complement of the same four bytes
Int32(order, s) ==
  LET top == IF order = "LE" THEN At(s, 3) ELSE At(s, 0)
      low == IF order = "LE"
               THEN At(s, 0) + 256 * At(s, 1) + 65536 * At(s, 2)
               ELSE At(s, 3) + 256 * At(s, 2) + 65536 * At(s, 1)
  IN  IF top >= 128 THEN low + 16777216 * (top - 256) ELSE low + 16777216 * top

Int16(order, s) ==
  LET u == Uint16(order, s) IN IF u >= 32768 THEN u - 65536 ELSE u

Int8(b) == IF b >= 128 THEN b - 256 ELSE b

\* order.Uint64(b) as the tuple of its bytes, most significant first
Uint64(order, s) ==
  IF order = "LE" THEN [i \in 1..8 |-> At(s, 8 - i)]
                  ELSE [i \in 1..8 |-> At(s, i - 1)]

(***************************************************************************)
(* Errors.                                                                 *)
(***************************************************************************)
Err(kind, code) == [kind |-> kind, code |-> code]

NoErr == Err("nil", 0)

ErrEOF == Err("io.EOF", 0)

ErrUnexpectedEOF == Err("io.ErrUnexpectedEOF", 0)

(***************************************************************************)
(* Decoded values.                                                         *)
(***************************************************************************)
Nil == [t |-> "nil"]

List(v) == [t |-> "list", v |-> v]

Scalar(k, v) == [k |-> k, v |-> v]

ZeroDimensions == [X |-> 0, Y |-> 0, Z |-> 0]

MatMatrix(name, flags, class, dims, content) ==
  [t |-> "MatMatrix", Name |-> name, Flags |-> flags, Class |-> class,
   Dimensions |-> dims, Content |-> content]

\* one sub-element consumed by the matrix decoder: where it started, the size
\* of its tag, the byteCount of its tag and where the cursor was left
Step(sub, start, hdr, nb, end, ok) ==
  [sub |-> sub, start |-> start, hdr |-> hdr, nb |-> nb, end |-> end, ok |-> ok]

(***************************************************************************)
(* binary.Read(bytes.NewReader(r), order, &b) with len(b) = n: io.ReadFull *)
(* of n bytes.                                                             *)
(***************************************************************************)
BinaryReadErr(r, n) ==
  IF n = 0 \/ SLen(r) >= n THEN NoErr
  ELSE IF SLen(r) = 0 THEN ErrEOF ELSE ErrUnexpectedEOF

(***************************************************************************)
(* checkIndex: the next multiple of 8 at or after index.                   *)
(***************************************************************************)
RECURSIVE checkIndex(_)
checkIndex(index) == IF index % 8 = 0 THEN index ELSE checkIndex(index + 1)

(***************************************************************************)
(* isSmallDataElementFormat and extractTag.                                *)
(***************************************************************************)
isSmallDataElementFormat(data, order) ==
  IF ~OkFrom(data, IF order = "LE" THEN 2 ELSE 0) THEN [st |-> "panic"]
  ELSE IF BinaryReadErr(From(data, IF order = "LE" THEN 2 ELSE 0), 2) # NoErr
    THEN [st |-> "err", err |-> Err("Could not read bytes", 0)]
  ELSE IF order = "LE" THEN [st |-> "ok", small |-> At(data, 2) # At(data, 3)]
  ELSE [st |-> "ok", small |-> At(data, 0) # At(data, 1)]

TagResult(dataType, numberOfBytes, offset) ==
  [st |-> "ok", dataType |-> dataType, numberOfBytes |-> numberOfBytes,
   offset |-> offset]

\* extractTag once isSmallDataElementFormat has returned p
TagOf(data, order, p) ==
  IF p.st # "ok" THEN p
  ELSE IF p.small
    THEN IF ~OkSub(data, 2, 4) THEN [st |-> "panic"]
         ELSE TagResult(Uint16(order, Sub(data, 0, 2)),
                        Uint16(order, Sub(data, 2, 4)), 4)
    ELSE IF ~OkSub(data, 4, 8) THEN [st |-> "panic"]
         ELSE TagResult(Uint32(order, Sub(data, 0, 4)),
                        Uint32(order, Sub(data, 4, 8)), 8)

extractTag(data, order) ==
  TagOf(data, order, isSmallDataElementFormat(data, order))

\* the tag as the callers that drop the error see it: zero values
TagOrZero(t) == IF t.st = "err" THEN TagResult(0, 0, 0) ELSE t

(***************************************************************************)
(* readDimensions: reflection over the decoded dimension scalars.          *)
(***************************************************************************)
IsIntKind(k) == k \in {"int8", "int16", "int32", "int64"}

readDimensions(dims) ==
  IF dims.t # "list" THEN [st |-> "panic"]
  ELSE IF Len(dims.v) > 0 /\ ~IsIntKind(dims.v[1].k) THEN [st |-> "panic"]
  ELSE IF Len(dims.v) > 3
    THEN [st |-> "err", err |-> Err("More dimensions than exptected", 0),
          dim |-> ZeroDimensions]
  ELSE [st |-> "ok",
        dim |-> [X |-> IF Len(dims.v) >= 1 THEN dims.v[1].v ELSE 0,
                 Y |-> IF Len(dims.v) >= 2 THEN dims.v[2].v ELSE 0,
                 Z |-> IF Len(dims.v) >= 3 THEN dims.v[3].v ELSE 0]]

(***************************************************************************)
(* extractFieldNames: numberOfFields names of fieldNameLength bytes.       *)
(***************************************************************************)
RECURSIVE FieldNamesLoop(_, _, _, _, _)
FieldNamesLoop(data, fieldNameLength, numberOfFields, index, names) ==
  IF numberOfFields <= 0 THEN [st |-> "ok", names |-> names]
  ELSE IF ~OkSub(data, index, index + fieldNameLength) THEN [st |-> "panic"]
  ELSE FieldNamesLoop(data, fieldNameLength, numberOfFields - 1,
                      index + fieldNameLength,
                      Append(names, SBytes(Sub(data, index, index + fieldNameLength))))

\* extractFieldNames with one field less
extractFieldNamesShort(data, fieldNameLength, numberOfFields) ==
  FieldNamesLoop(data, fieldNameLength, numberOfFields - 1, 0, <<>>)

extractFieldNames(data, fieldNameLength, numberOfFields) ==
  FieldNamesLoop(data, fieldNameLength, numberOfFields, 0, <<>>)

(***************************************************************************)
(* The scalar loop of extractDataElement.                                  *)
(***************************************************************************)
Width(dataType) ==
  CASE dataType \in {MiInt8, MiUint8} -> 1
    [] dataType \in {MiInt16, MiUint16} -> 2
    [] dataType \in {MiInt32, MiUint32, MiSingle} -> 4
    [] dataType \in {MiInt64, MiUint64, MiDouble} -> 8
    [] OTHER -> 0

DecodeScalar(data, order, dataType, i) ==
  CASE dataType = MiInt8 -> Scalar("int8", Int8(At(data, i)))
    [] dataType = MiUint8 -> Scalar("uint8", At(data, i))
    [] dataType = MiInt16 -> Scalar("int16", Int16(order, Sub(data, i, i + 2)))
    [] dataType = MiUint16 -> Scalar("uint16", Uint16(order, Sub(data, i, i + 2)))
    [] dataType = MiInt32 -> Scalar("int32", Int32(order, Sub(data, i, i + 4)))
    [] dataType = MiUint32 -> Scalar("uint32", Uint32(order, Sub(data, i, i + 4)))
    [] dataType = MiSingle -> Scalar("float32", Uint32(order, Sub(data, i, i + 4)))
    [] dataType = MiInt64 -> Scalar("int64", Uint64(order, Sub(data, i, i + 8)))
    [] dataType = MiUint64 -> Scalar("uint64", Uint64(order, Sub(data, i, i + 8)))
    [] dataType = MiDouble -> Scalar("float64", Uint64(order, Sub(data, i, i + 8)))

\* data[i] checks the length, data[i:i+w] the capacity
ScalarInBounds(data, dataType, i) ==
  IF Width(dataType) = 1 THEN i < SLen(data)
  ELSE OkSub(data, i, i + Width(dataType))

RECURSIVE ScalarLoop(_, _, _, _, _, _)
ScalarLoop(data, order, dataType, numberOfBytes, i, elements) ==
  IF ~(i < numberOfBytes)
    THEN [st |-> "ok", element |-> List(elements), i |-> i, steps |-> <<>>]
  ELSE IF Width(dataType) = 0
    THEN [st |-> "err", err |-> Err("Data Type is not supported", dataType)]
  ELSE IF ~ScalarInBounds(data, dataType, i) THEN [st |-> "panic"]
  ELSE ScalarLoop(data, order, dataType, numberOfBytes, i + Width(dataType),
                  Append(elements, DecodeScalar(data, order, dataType, i)))

(***************************************************************************)
(* extractArrayName: a tag and its payload as a string.  hdr and nb report *)
(* the tag that was read (0, 0 when it could not be read).                 *)
(***************************************************************************)
\* extractArrayName once extractTag has returned t
ArrayNameOf(data, t) ==
  IF t.st = "panic" THEN t
  ELSE IF t.st = "err"
    THEN [st |-> "err", err |-> t.err, name |-> <<>>, step |-> 0,
          hdr |-> 0, nb |-> 0]
  ELSE IF t.numberOfBytes = 0
    THEN [st |-> "ok", name |-> <<>>, step |-> t.offset,
          hdr |-> t.offset, nb |-> 0]
  ELSE IF ~OkFrom(data, t.offset) THEN [st |-> "panic"]
  ELSE IF BinaryReadErr(From(data, t.offset), t.numberOfBytes) # NoErr
    THEN [st |-> "err",
          err |-> BinaryReadErr(From(data, t.offset), t.numberOfBytes),
          name |-> <<>>, step |-> 0, hdr |-> t.offset, nb |-> t.numberOfBytes]
  ELSE [st |-> "ok",
        name |-> SBytes(Sub(data, t.offset, t.offset + t.numberOfBytes)),
        step |-> t.offset + t.numberOfBytes,
        hdr |-> t.offset, nb |-> t.numberOfBytes]

extractArrayName(data, order) == ArrayNameOf(data, extractTag(data, order))

(***************************************************************************)
(* extractDataElement, extractNumeric and extractMatrix.                   *)
(***************************************************************************)
RECURSIVE extractDataElement(_, _, _, _)
RECURSIVE extractMatrix(_, _)

\* extractNumeric once extractDataElement has returned r for the tag t
NumericOf(t, r) ==
  IF r.st = "panic" THEN r
  ELSE IF r.st = "err"
    THEN [st |-> "err", err |-> r.err, re |-> Nil, used |-> 0,
          hdr |-> t.offset, nb |-> t.numberOfBytes, steps |-> <<>>]
  ELSE [st |-> "ok", re |-> r.element, used |-> t.offset + t.numberOfBytes,
        hdr |-> t.offset, nb |-> t.numberOfBytes, steps |-> r.steps]

\* extractNumeric once extractTag has returned t
NumericTagged(data, order, t) ==
  IF t.st = "panic" THEN t
  ELSE IF t.st = "err"
    THEN [st |-> "err", err |-> t.err, re |-> Nil, used |-> 0,
          hdr |-> 0, nb |-> 0, steps |-> <<>>]
  ELSE IF ~OkFrom(data, t.offset) THEN [st |-> "panic"]
  ELSE NumericOf(t, extractDataElement(From(data, t.offset), order,
                                       t.dataType, t.numberOfBytes))

extractNumeric(data, order) ==
  NumericTagged(data, order, extractTag(data, order))

\* the result of case MiMatrix: tmp := (*data)[i:] with i = 0
MatrixElement(m) ==
  IF m.st # "ok" THEN m
  ELSE [st |-> "ok", element |-> m.matrix, i |-> m.index, steps |-> m.steps]

extractDataElement(data, order, dataType, numberOfBytes) ==
  IF 0 < numberOfBytes /\ dataType = MiMatrix
    THEN MatrixElement(extractMatrix(data, order))
    ELSE ScalarLoop(data, order, dataType, numberOfBytes, 0, <<>>)

(***************************************************************************)
(* Class bodies of extractMatrix.  Each returns [st, content, index,       *)
(* steps], or the failure of the decoder it called.                        *)
(***************************************************************************)
BodyResult(content, index, steps) ==
  [st |-> "ok", content |-> content, index |-> index, steps |-> steps]

\* case MxCellClass: child matrices until the end of the buffer
RECURSIVE CellLoop(_, _, _, _, _, _)

\* one turn of the loop once extractMatrix has returned c for the child
CellChild(data, order, maxLen, index, cells, steps, c) ==
  IF c.st # "ok" THEN c
  ELSE CellLoop(data, order, maxLen, checkIndex(index + 8 + c.index),
                Append(cells, c.matrix),
                steps \o c.steps \o
                <<Step("cell", index, 8,
                       Uint32(order, Sub(data, index + 4, index + 8)),
                       checkIndex(index + 8 + c.index), TRUE)>>)

CellLoop(data, order, maxLen, index, cells, steps) ==
  IF index >= maxLen
    THEN BodyResult([t |-> "CellPrt", Cells |-> cells], index, steps)
  ELSE IF ~OkFrom(data, index + 8) THEN [st |-> "panic"]
  ELSE CellChild(data, order, maxLen, index, cells, steps,
                 extractMatrix(From(data, index + 8), order))

\* one tagged value at index of a char or struct body: the tag t is read
\* from data[index:index+8] and its error dropped, the value from the bytes
\* the tag announces
TaggedValueOf(data, order, index, t) ==
  IF t.st = "panic" THEN t
  ELSE IF ~OkSub(data, index + t.offset, index + t.offset + t.numberOfBytes)
    THEN [st |-> "panic"]
  ELSE [st |-> "ok", t |-> t,
        r |-> extractDataElement(
                Sub(data, index + t.offset, index + t.offset + t.numberOfBytes),
                order, t.dataType, t.numberOfBytes),
        next |-> checkIndex(index + t.offset + t.numberOfBytes)]

TaggedValue(data, order, index) ==
  IF ~OkSub(data, index, index + 8) THEN [st |-> "panic"]
  ELSE TaggedValueOf(data, order, index,
                     TagOrZero(extractTag(Sub(data, index, index + 8), order)))

\* the field values of case MxStructClass
RECURSIVE FieldLoop(_, _, _, _, _, _)

\* one turn of the loop once the field value v has been read
FieldValue(data, order, numberOfFields, index, elements, steps, v) ==
  IF v.st # "ok" THEN v
  ELSE IF v.r.st # "ok" THEN v.r
  ELSE FieldLoop(data, order, numberOfFields - 1, v.next,
                 Append(elements, v.r.element),
                 steps \o v.r.steps \o
                 <<Step("field", index, v.t.offset, v.t.numberOfBytes,
                        v.next, TRUE)>>)

FieldLoop(data, order, numberOfFields, index, elements, steps) ==
  IF numberOfFields <= 0
    THEN [st |-> "ok", elements |-> elements, index |-> index, steps |-> steps]
  ELSE FieldValue(data, order, numberOfFields, index, elements, steps,
                  TaggedValue(data, order, index))

\* case MxStructClass once the field names fn and the field values fv are read
StructFields(fn, fv) ==
  IF fn.st # "ok" THEN fn
  ELSE IF fv.st # "ok" THEN fv
  ELSE BodyResult([t |-> "StructPrt", FieldNames |-> fn.names,
                   FieldValues |-> fv.elements],
                  fv.index, fv.steps)

\* case MxStructClass from the field names on, index1 = checkIndex(index + 16)
StructSized(data, order, steps, fieldNameLength, numberOfFields, index1) ==
  IF ~OkSub(data, index1, index1 + fieldNameLength * numberOfFields)
    THEN [st |-> "panic"]
  ELSE StructFields(
         extractFieldNames(
           Sub(data, index1, index1 + fieldNameLength * numberOfFields),
           fieldNameLength, numberOfFields),
         FieldLoop(data, order, numberOfFields,
                   checkIndex(index1 + numberOfFields * fieldNameLength),
                   <<>>, steps))

\* numberOfFields := order.Uint32(data[index+12:index+16]) / fieldNameLength
StructCounted(data, order, index, steps, fieldNameLength, fieldsByteCount) ==
  IF fieldNameLength = 0 THEN [st |-> "panic"]
  ELSE StructSized(data, order, steps, fieldNameLength,
                   fieldsByteCount \div fieldNameLength, checkIndex(index + 16))

StructBody(data, order, index, steps) ==
  IF ~OkSub(data, index + 4, index + 8) THEN [st |-> "panic"]
  ELSE IF ~OkSub(data, index + 12, index + 16) THEN [st |-> "panic"]
  ELSE StructCounted(data, order, index, steps,
                     Uint32(order, Sub(data, index + 4, index + 8)),
                     Uint32(order, Sub(data, index + 12, index + 16)))

\* the values after the first one of case MxCharClass: at most three
RECURSIVE CharLoop(_, _, _, _, _, _, _)

\* one turn of the loop once the value v has been read
CharValue(data, order, maxLen, index, counter, values, steps, v) ==
  IF v.st # "ok" THEN v
  ELSE IF v.r.st # "ok" THEN v.r
  ELSE CharLoop(data, order, maxLen, v.next, counter + 1,
                Append(values, v.r.element),
                steps \o v.r.steps \o
                <<Step("charvalue", index, v.t.offset, v.t.numberOfBytes,
                       v.next, TRUE)>>)

CharLoop(data, order, maxLen, index, counter, values, steps) ==
  IF index >= maxLen \/ counter + 1 > 3
    THEN [st |-> "ok", values |-> values, index |-> index, steps |-> steps]
  ELSE CharValue(data, order, maxLen, index, counter, values, steps,
                 TaggedValue(data, order, index))

\* case MxCharClass once the name n and the further values l are read
CharContent(n, l) ==
  IF l.st # "ok" THEN l
  ELSE BodyResult([t |-> "CharPrt", CharName |-> n.name, CharValues |-> l.values],
                  l.index, l.steps)

\* case MxCharClass once extractArrayName has returned n
CharNamed(data, order, maxLen, index, steps, t, n, next) ==
  IF n.st = "panic" THEN n
  ELSE IF n.st = "err" THEN [st |-> "err", err |-> n.err]
  ELSE CharContent(n, CharLoop(data, order, maxLen, next, 0, <<>>,
                               Append(steps, Step("char", index, t.offset,
                                                  t.numberOfBytes, next, TRUE))))

\* case MxCharClass once extractTag has returned t, its error dropped
CharTagged(data, order, maxLen, index, steps, t) ==
  IF t.st = "panic" THEN t
  ELSE IF ~OkSub(data, index, index + t.offset + t.numberOfBytes)
    THEN [st |-> "panic"]
  ELSE CharNamed(data, order, maxLen, index, steps, t,
                 extractArrayName(
                   Sub(data, index, index + t.offset + t.numberOfBytes), order),
                 checkIndex(index + t.offset + t.numberOfBytes))

CharBody(data, order, maxLen, index, steps) ==
  IF ~OkSub(data, index, index + 8) THEN [st |-> "panic"]
  ELSE CharTagged(data, order, maxLen, index, steps,
                  TagOrZero(extractTag(Sub(data, index, index + 8), order)))

\* case MxDoubleClass .. MxUint32Class: real part and optional imaginary part;
\* the errors of extractNumeric are dropped
NumericImag(re, index1, steps1, im) ==
  IF im.st = "panic" THEN im
  ELSE BodyResult([t |-> "NumPrt", RealPart |-> re.re, ImaginaryPart |-> im.re],
                  checkIndex(index1 + im.used),
                  steps1 \o im.steps \o
                  <<Step("imag", index1, im.hdr, im.nb,
                         checkIndex(index1 + im.used), im.st = "ok")>>)

\* after the real part: index1 = checkIndex(index + used)
NumericComplex(data, order, complexNumber, re, index1, steps1) ==
  IF ~complexNumber
    THEN BodyResult([t |-> "NumPrt", RealPart |-> re.re, ImaginaryPart |-> Nil],
                    index1, steps1)
  ELSE IF ~OkFrom(data, index1) THEN [st |-> "panic"]
  ELSE NumericImag(re, index1, steps1, extractNumeric(From(data, index1), order))

NumericReal(data, order, complexNumber, index, steps, re) ==
  IF re.st = "panic" THEN re
  ELSE NumericComplex(data, order, complexNumber, re,
                      checkIndex(index + re.used),
                      steps \o re.steps \o
                      <<Step("real", index, re.hdr, re.nb,
                             checkIndex(index + re.used), re.st = "ok")>>)

NumericBody(data, order, complexNumber, index, steps) ==
  IF ~OkFrom(data, index) THEN [st |-> "panic"]
  ELSE NumericReal(data, order, complexNumber, index, steps,
                   extractNumeric(From(data, index), order))

ClassBody(data, order, class, complexNumber, maxLen, index, steps) ==
  CASE class = MxCellClass -> CellLoop(data, order, maxLen, index, <<>>, steps)
    [] class = MxStructClass -> StructBody(data, order, index, steps)
    [] class = MxCharClass -> CharBody(data, order, maxLen, index, steps)
    [] class \in MxDoubleClass..MxUint32Class ->
         NumericBody(data, order, complexNumber, index, steps)
    [] OTHER -> [st |-> "err",
                 err |-> Err("This type of class is not supported yet", class)]

(***************************************************************************)
(* extractMatrix: Array Flags, Dimensions Array, Array Name, class body.   *)
(***************************************************************************)
\* the matrix once the class body b is decoded
MatrixContent(n, flags, dims, b) ==
  IF b.st # "ok" THEN b
  ELSE [st |-> "ok",
        matrix |-> MatMatrix(n.name, flags, flags % (ClassMask + 1), dims,
                             b.content),
        index |-> b.index, steps |-> b.steps]

\* once extractArrayName has returned n; its error is dropped
MatrixNamed(data, order, maxLen, flags, dims, index, steps, n) ==
  IF n.st = "panic" THEN n
  ELSE MatrixContent(n, flags, dims,
                     ClassBody(data, order, flags % (ClassMask + 1),
                               Bit(flags, FlagComplex) = 1, maxLen,
                               checkIndex(index + n.step),
                               Append(steps,
                                      Step("name", index, n.hdr, n.nb,
                                           checkIndex(index + n.step),
                                           n.st = "ok"))))

\* Array Name onwards
MatrixName(data, order, maxLen, flags, dims, index, steps) ==
  IF ~OkFrom(data, index) THEN [st |-> "panic"]
  ELSE MatrixNamed(data, order, maxLen, flags, dims, index, steps,
                   extractArrayName(From(data, index), order))

\* once readDimensions has returned rd; its error is dropped
MatrixDimensioned(data, order, maxLen, flags, index, steps, t, d, rd) ==
  IF rd.st = "panic" THEN rd
  ELSE MatrixName(data, order, maxLen, flags, rd.dim,
                  checkIndex(index + t.offset + t.numberOfBytes),
                  steps \o d.steps \o
                  <<Step("dims", index, t.offset, t.numberOfBytes,
                         checkIndex(index + t.offset + t.numberOfBytes),
                         rd.st = "ok")>>)

\* once extractDataElement has returned d for the dimensions
MatrixDimsDecoded(data, order, maxLen, flags, index, steps, t, d) ==
  IF d.st # "ok" THEN d
  ELSE MatrixDimensioned(data, order, maxLen, flags, index, steps, t, d,
                         readDimensions(d.element))

\* once extractTag has returned t for the dimensions
MatrixDimsTagged(data, order, maxLen, flags, index, steps, t) ==
  IF t.st # "ok" THEN t
  ELSE IF ~OkSub(data, index + t.offset, index + t.offset + t.numberOfBytes)
    THEN [st |-> "panic"]
  ELSE MatrixDimsDecoded(data, order, maxLen, flags, index, steps, t,
                         extractDataElement(
                           MkSlice(SBytes(Sub(data, index + t.offset,
                                              index + t.offset + t.numberOfBytes))),
                           order, t.dataType, t.numberOfBytes))

\* Dimensions Array onwards
MatrixDims(data, order, maxLen, flags, index, steps) ==
  IF ~OkSub(data, index, index + 8) THEN [st |-> "panic"]
  ELSE MatrixDimsTagged(data, order, maxLen, flags, index, steps,
                        extractTag(Sub(data, index, index + 8), order))

\* Array Flags: once extractTag has returned t; the flags are read with
\* binary.LittleEndian whatever the order of the file
MatrixFlags(data, order, t) ==
  IF t.st # "ok" THEN t
  ELSE IF ~OkSub(data, t.offset, t.offset + t.numberOfBytes) THEN [st |-> "panic"]
  ELSE IF t.numberOfBytes < 4 THEN [st |-> "panic"]
  ELSE MatrixDims(data, order, SLen(data),
                  Uint32("LE", Sub(data, t.offset, t.offset + t.numberOfBytes)),
                  checkIndex(t.offset + t.numberOfBytes),
                  <<Step("flags", 0, t.offset, t.numberOfBytes,
                         checkIndex(t.offset + t.numberOfBytes), TRUE)>>)

extractMatrix(data, order) == MatrixFlags(data, order, extractTag(data, order))

(***************************************************************************)
(* compress/zlib as decompressData uses it.  Inflate models the zlib       *)
(* header check, DEFLATE stored blocks (BTYPE 00), the reserved block type *)
(* (BTYPE 11) and the Adler-32 trailer; Huffman coded blocks (BTYPE 01 and *)
(* 10) are outside the model and are never generated as input.             *)
(* The result is [hdr, out, err]: hdr = FALSE when zlib.NewReader itself   *)
(* fails, out the bytes produced before the stream ended or failed.        *)
(***************************************************************************)
AdlerMod == 65521

\* sum of w(i) * bytes[i] for i in lo..hi, with w(i) = 1 or w(i) = n + 1 - i
RECURSIVE AdlerSum(_, _, _, _)
AdlerSum(bytes, lo, hi, weighted) ==
  IF lo > hi THEN 0
  ELSE IF lo = hi
    THEN (IF weighted THEN (Len(bytes) + 1 - lo) * bytes[lo] ELSE bytes[lo])
  ELSE AdlerSum(bytes, lo, (lo + hi) \div 2, weighted)
       + AdlerSum(bytes, (lo + hi) \div 2 + 1, hi, weighted)

\* the trailer bytes for the two running sums a and b, big-endian
AdlerBytes(a, b) == <<b \div 256, b % 256, a \div 256, a % 256>>

\* the Adler-32 checksum: a is 1 plus the sum of the bytes, b the sum of the
\* successive values of a
Adler32(bytes) ==
  AdlerBytes((1 + AdlerSum(bytes, 1, Len(bytes), FALSE)) % AdlerMod,
             (Len(bytes) + AdlerSum(bytes, 1, Len(bytes), TRUE)) % AdlerMod)

Inflated(out, err) == [hdr |-> TRUE, out |-> out, err |-> err]

RECURSIVE InflateBlocks(_, _, _)

\* a stored block of n bytes (nn its one's complement) that makes the output
\* out1 and ends at q
InflateStored(z, p, out, final, n, nn, out1, q) ==
  IF nn # 65535 - n THEN Inflated(out, Err("flate.CorruptInputError", p))
  ELSE IF Len(z) - (p + 5) < n THEN Inflated(out1, ErrUnexpectedEOF)
  ELSE IF ~final THEN InflateBlocks(z, q, out1)
  ELSE IF Len(z) - q < 4 THEN Inflated(out1, ErrUnexpectedEOF)
  ELSE IF SubSeq(z, q + 1, q + 4) # Adler32(out1)
    THEN Inflated(out1, Err("zlib.ErrChecksum", 0))
  ELSE Inflated(out1, ErrEOF)

\* p: bytes of z already consumed
InflateBlocks(z, p, out) ==
  IF Len(z) - p < 1 THEN Inflated(out, ErrUnexpectedEOF)
  ELSE IF (z[p + 1] \div 2) % 4 = 3
    THEN Inflated(out, Err("flate.CorruptInputError", p))
  ELSE IF (z[p + 1] \div 2) % 4 # 0
    THEN Inflated(out, Err("unmodelled", (z[p + 1] \div 2) % 4))
  ELSE IF Len(z) - p < 5 THEN Inflated(out, ErrUnexpectedEOF)
  ELSE InflateStored(z, p, out, z[p + 1] % 2 = 1,
                     z[p + 2] + 256 * z[p + 3], z[p + 4] + 256 * z[p + 5],
                     out \o SubSeq(z, p + 6,
                                   p + 5 + Min(z[p + 2] + 256 * z[p + 3],
                                               Len(z) - (p + 5))),
                     p + 5 + z[p + 2] + 256 * z[p + 3])

Inflate(z) ==
  IF Len(z) < 2 THEN [hdr |-> FALSE, out |-> <<>>, err |-> ErrUnexpectedEOF]
  ELSE IF z[1] % 16 # 8 \/ z[1] \div 16 > 7 \/ (z[1] * 256 + z[2]) % 31 # 0
    THEN [hdr |-> FALSE, out |-> <<>>, err |-> Err("zlib.ErrHeader", 0)]
  ELSE IF (z[2] \div 32) % 2 = 1
    THEN IF Len(z) < 6
           THEN [hdr |-> FALSE, out |-> <<>>, err |-> ErrUnexpectedEOF]
         ELSE IF SubSeq(z, 3, 6) # <<0, 0, 0, 1>>
           THEN [hdr |-> FALSE, out |-> <<>>, err |-> Err("zlib.ErrDictionary", 0)]
         ELSE InflateBlocks(z, 6, <<>>)
  ELSE InflateBlocks(z, 2, <<>>)

(***************************************************************************)
(* decompressData.  zlib.NewReader returns a nil ReadCloser with its       *)
(* error, and `defer r.Close()` runs before the error is looked at: the    *)
(* call on the nil interface panics.  The error of io.Copy is dropped, so  *)
(* a stream that fails part-way returns what was inflated so far, without  *)
(* an error.  out.Bytes() has the capacity bytes.Buffer.ReadFrom grew it   *)
(* to (bytes.MinRead), zero beyond its length.                             *)
(***************************************************************************)
\* decompressData once zlib has produced z
Copied(z) ==
  IF ~z.hdr THEN [st |-> "panic"]
  ELSE [st |-> "ok", plain |-> MkSliceCap(z.out, MinRead - Len(z.out))]

decompressData(data) == Copied(Inflate(SBytes(data)))

(***************************************************************************)
(* The file: os.File.Read at offset p of the byte source f.                *)
(***************************************************************************)
FileRead(f, p, n) ==
  IF n = 0 THEN [count |-> 0, err |-> NoErr]
  ELSE IF Len(f) - p <= 0 THEN [count |-> 0, err |-> ErrEOF]
  ELSE [count |-> Min(n, Len(f) - p), err |-> NoErr]

\* readBytes once file.Read has returned r: [st, err, data, pos]
BytesRead(f, p, numberOfBytes, r) ==
  IF r.err # NoErr THEN [st |-> "err", err |-> r.err, pos |-> p + r.count]
  ELSE IF r.count # numberOfBytes
    THEN [st |-> "err", err |-> Err("Could not read bytes", numberOfBytes),
          pos |-> p + r.count]
  ELSE [st |-> "ok", data |-> MkSlice(SubSeq(f, p + 1, p + r.count)),
        pos |-> p + r.count]

\* a fault for C1: the payload is read, the file offset is left where it was
readBytesNoAdvance(f, p, numberOfBytes) ==
  [BytesRead(f, p, numberOfBytes, FileRead(f, p, numberOfBytes)) EXCEPT !.pos = p]

readBytes(f, p, numberOfBytes) ==
  BytesRead(f, p, numberOfBytes, FileRead(f, p, numberOfBytes))

(***************************************************************************)
(* readHeader: the endian indicator of a 128 byte header.                  *)
(***************************************************************************)
LittleEndianIndicator == <<73, 77>>

\* a fault for C2: the indicator is compared with "MI"
IndicatorIsLittleSwapped(ind) == ind = <<77, 73>>

IndicatorIsLittle(ind) == ind = LittleEndianIndicator

\* readHeader once file.Read has returned r
HeaderRead(f, r) ==
  IF r.err # NoErr THEN [st |-> "err", err |-> r.err, pos |-> r.count]
  ELSE IF r.count # HeaderSize
    THEN [st |-> "err", err |-> Err("Could not read enough bytes", 0),
          pos |-> r.count]
  ELSE [st |-> "ok", pos |-> r.count,
        endianIndicator |-> SubSeq(f, 127, 128),
        byteSwapping |-> IndicatorIsLittle(SubSeq(f, 127, 128))]

readHeader(f) == HeaderRead(f, FileRead(f, 0, HeaderSize))

(***************************************************************************)
(* readDataElementField.                                                   *)
(***************************************************************************)
Ret(st, err, dataType, elements, steps) ==
  [st |-> st, err |-> err, dataType |-> dataType, elements |-> elements,
   steps |-> steps]

RetErr(e) == Ret("err", e, 0, <<>>, <<>>)

RetPanic == Ret("panic", NoErr, 0, <<>>, <<>>)

RetHang == Ret("hang", NoErr, 0, <<>>, <<>>)

\* the loop over the bytes that remain after the first element
RECURSIVE ResidualLoop(_, _, _, _, _, _, _)

\* one turn of the loop once extractDataElement has returned r
ResidualDecoded(data, order, dataType, completeBytes, i, elements, steps, t, r) ==
  IF r.st = "panic" THEN RetPanic
  ELSE IF r.st = "err" THEN RetErr(r.err)
  ELSE IF checkIndex(i + r.i + t.offset) = i THEN RetHang
  ELSE ResidualLoop(data, order, dataType, completeBytes,
                    checkIndex(i + r.i + t.offset),
                    Append(elements, r.element), steps \o r.steps)

\* one turn of the loop once extractTag has returned t, its error dropped
ResidualTagged(data, order, dataType, completeBytes, i, elements, steps, t) ==
  IF t.st = "panic" THEN RetPanic
  ELSE IF ~OkFrom(data, i + t.offset) THEN RetPanic
  ELSE ResidualDecoded(data, order, dataType, completeBytes, i, elements, steps, t,
                       extractDataElement(From(data, i + t.offset), order,
                                          t.dataType, t.numberOfBytes))

ResidualLoop(data, order, dataType, completeBytes, i, elements, steps) ==
  IF ~(i < completeBytes) THEN Ret("ok", NoErr, dataType, elements, steps)
  ELSE IF ~OkFrom(data, i) THEN RetPanic
  ELSE ResidualTagged(data, order, dataType, completeBytes, i, elements, steps,
                      TagOrZero(extractTag(From(data, i), order)))

\* the first element r and then the residual loop
FirstElement(data, order, dataType, completeBytes, r) ==
  IF r.st = "panic" THEN RetPanic
  ELSE IF r.st = "err" THEN RetErr(r.err)
  ELSE ResidualLoop(data, order, dataType, completeBytes, r.i,
                    <<r.element>>, r.steps)

\* a fault for C4: everything but a matrix is refused at top level
DecodeElementMatrixOnly(data, order, dataType, completeBytes) ==
  IF dataType # MiMatrix
    THEN RetErr(Err("Data Type is not supported", dataType))
  ELSE FirstElement(data, order, dataType, completeBytes,
                    extractDataElement(data, order, dataType, completeBytes))

\* a fault for C7: the bytes after the first element are left alone
DecodeElementNoResidual(data, order, dataType, completeBytes) ==
  FirstElement(data, order, dataType,
               extractDataElement(data, order, dataType, completeBytes).i,
               extractDataElement(data, order, dataType, completeBytes))

\* from the element bytes on: data, and the tag that describes them
DecodeElement(data, order, dataType, completeBytes) ==
  FirstElement(data, order, dataType, completeBytes,
               extractDataElement(data, order, dataType, completeBytes))

\* the branch dataType == MiCompressed once extractTag has returned t for the
\* inflated bytes, its error dropped
CompressedTagged(order, plain, t) ==
  IF t.st = "panic" THEN RetPanic
  ELSE IF ~OkFrom(plain, t.offset) THEN RetPanic
  ELSE DecodeElement(From(plain, t.offset), order, t.dataType, t.numberOfBytes)

\* the branch dataType == MiCompressed once decompressData has returned d
CompressedPlain(order, d) ==
  IF d.st = "panic" THEN RetPanic
  ELSE IF d.st = "err" THEN RetErr(d.err)
  ELSE CompressedTagged(order, d.plain, TagOrZero(extractTag(d.plain, order)))

DecodeCompressed(data, order, completeBytes) ==
  IF ~OkSub(data, 0, completeBytes) THEN RetPanic
  ELSE CompressedPlain(order, decompressData(Sub(data, 0, completeBytes)))

\* once the payload has been read: [ret, pos]
ElementPayload(order, dataType, completeBytes, body) ==
  IF body.st # "ok" THEN [ret |-> RetErr(body.err), pos |-> body.pos]
  ELSE [ret |-> IF dataType = MiCompressed
                  THEN DecodeCompressed(body.data, order, completeBytes)
                  ELSE DecodeElement(body.data, order, dataType, completeBytes),
        pos |-> body.pos]

\* once the 8 bytes of the tag have been read
ElementTag(f, order, tag) ==
  IF tag.st # "ok" THEN [ret |-> RetErr(tag.err), pos |-> tag.pos]
  ELSE ElementPayload(order, Uint32(order, Sub(tag.data, 0, 4)),
                      Uint32(order, Sub(tag.data, 4, 8)),
                      readBytes(f, tag.pos, Uint32(order, Sub(tag.data, 4, 8))))

\* [ret, pos]: what the call returns and where it leaves the file
readDataElementField(f, p, order) == ElementTag(f, order, readBytes(f, p, 8))

OrderOf(swap) == IF swap THEN "LE" ELSE "BE"

(***************************************************************************)
(* Input files.  A file is described by a document: the byte order it is   *)
(* written in, its endian indicator, the names of its top-level items and  *)
(* the number of bytes cut from its end.  The encoders below write the     *)
(* MAT-file layout of a description; they are the reference the decoders   *)
(* are compared with and model no code of the reader.                      *)
(***************************************************************************)
RECURSIVE Concat(_)
Concat(ss) == IF ss = <<>> THEN <<>> ELSE Head(ss) \o Concat(Tail(ss))

Pad(bytes, m) == bytes \o Zeros((m - (Len(bytes) % m)) % m)

Rev(bytes) == [i \in 1..Len(bytes) |-> bytes[Len(bytes) + 1 - i]]

\* n as w bytes in the given order (two's complement for negative n)
EncInt(order, n, w) ==
  LET le == [i \in 1..w |-> IF i = 1 THEN n % 256
                            ELSE IF i = 2 THEN (n \div 256) % 256
                            ELSE IF i = 3 THEN (n \div 65536) % 256
                            ELSE (n \div 16777216) % 256]
  IN  IF order = "LE" THEN le ELSE Rev(le)

EncTag(order, dataType, numberOfBytes) ==
  EncInt(order, dataType, 4) \o EncInt(order, numberOfBytes, 4)

\* small data element: byteCount in the high half of the 32-bit word
EncSmall(order, dataType, payload) ==
  (IF order = "LE"
     THEN EncInt(order, dataType, 2) \o EncInt(order, Len(payload), 2)
     ELSE EncInt(order, Len(payload), 2) \o EncInt(order, dataType, 2))
  \o Pad(payload, 4)

EncSub(order, dataType, payload) ==
  IF Len(payload) \in 1..4 THEN EncSmall(order, dataType, payload)
  ELSE EncTag(order, dataType, Len(payload)) \o Pad(payload, 8)

KindOf(dataType) ==
  CASE dataType = MiInt8 -> "int8" [] dataType = MiUint8 -> "uint8"
    [] dataType = MiInt16 -> "int16" [] dataType = MiUint16 -> "uint16"
    [] dataType = MiInt32 -> "int32" [] dataType = MiUint32 -> "uint32"
    [] dataType = MiSingle -> "float32" [] dataType = MiDouble -> "float64"
    [] dataType = MiInt64 -> "int64" [] dataType = MiUint64 -> "uint64"

\* the payload of a run of scalars; 64-bit values are given by their bytes
EncVals(order, dataType, vals) ==
  Concat([i \in 1..Len(vals) |->
            IF Width(dataType) = 8
              THEN (IF order = "LE" THEN Rev(vals[i]) ELSE vals[i])
              ELSE EncInt(order, vals[i], Width(dataType))])

ExpVals(dataType, vals) ==
  List([i \in 1..Len(vals) |-> Scalar(KindOf(dataType), vals[i])])

\* descriptions of matrices
Num(flags, dims, name, dataType, re, im) ==
  [k |-> "num", flags |-> flags, dims |-> dims, name |-> name,
   dataType |-> dataType, re |-> re, im |-> im]

Cell(dims, name, kids) ==
  [k |-> "cell", flags |-> MxCellClass, dims |-> dims, name |-> name, kids |-> kids]

Struct(dims, name, fieldNameLength, fieldNames, kids) ==
  [k |-> "struct", flags |-> MxStructClass, dims |-> dims, name |-> name,
   fieldNameLength |-> fieldNameLength, fieldNames |-> fieldNames, kids |-> kids]

Char(dims, name, chars) ==
  [k |-> "char", flags |-> MxCharClass, dims |-> dims, name |-> name, chars |-> chars]

EncPrefix(order, m) ==
  EncTag(order, MiUint32, 8) \o EncInt(order, m.flags, 4) \o EncInt(order, 0, 4)
  \o EncSub(order, MiInt32, EncVals(order, MiInt32, m.dims))
  \o (IF m.name = <<>> THEN EncTag(order, MiInt8, 0)
      ELSE EncSub(order, MiInt8, m.name))

RECURSIVE EncBody(_, _)
EncElement(order, m) ==
  LET body == EncBody(order, m)
  IN  EncTag(order, MiMatrix, Len(body)) \o body

EncBody(order, m) ==
  EncPrefix(order, m) \o
  (CASE m.k = "num" ->
          EncSub(order, m.dataType, EncVals(order, m.dataType, m.re))
          \o (IF Bit(m.flags, FlagComplex) = 1
                THEN EncSub(order, m.dataType, EncVals(order, m.dataType, m.im))
                ELSE <<>>)
     [] m.k = "cell" ->
          Concat([i \in 1..Len(m.kids) |-> EncElement(order, m.kids[i])])
     [] m.k = "struct" ->
          EncSmall(order, MiInt32, EncInt(order, m.fieldNameLength, 4))
          \o EncTag(order, MiInt8, m.fieldNameLength * Len(m.fieldNames))
          \o Pad(Concat([i \in 1..Len(m.fieldNames) |->
                           Pad(m.fieldNames[i], m.fieldNameLength)]), 8)
          \o Concat([i \in 1..Len(m.kids) |-> EncElement(order, m.kids[i])])
     [] m.k = "char" ->
          EncSub(order, MiUint16, EncVals(order, MiUint16, m.chars)))

Dims3(dims) ==
  [X |-> IF Len(dims) >= 1 THEN dims[1] ELSE 0,
   Y |-> IF Len(dims) >= 2 THEN dims[2] ELSE 0,
   Z |-> IF Len(dims) >= 3 THEN dims[3] ELSE 0]

\* the value a numeric description stands for
ExpNum(m) ==
  MatMatrix(m.name, m.flags, m.flags % 16, Dims3(m.dims),
            [t |-> "NumPrt", RealPart |-> ExpVals(m.dataType, m.re),
             ImaginaryPart |-> IF Bit(m.flags, FlagComplex) = 1
                                 THEN ExpVals(m.dataType, m.im) ELSE Nil])

\* a zlib stream of one stored block
ZStore(bytes) ==
  <<120, 156, 1>> \o EncInt("LE", Len(bytes), 2)
  \o EncInt("LE", 65535 - Len(bytes), 2) \o bytes \o Adler32(bytes)

(***************************************************************************)
(* The matrices and top-level items the input files are made of.           *)
(***************************************************************************)
LongName == <<84, 104, 105, 115, 73, 115, 65, 76, 111, 110, 103, 101, 114, 78, 97, 109, 101>>

Two == <<64, 0, 0, 0, 0, 0, 0, 0>>

DDbl == Num(MxDoubleClass, <<1, 1>>, <<97>>, MiDouble, <<Two>>, <<>>)

DLong == Num(MxInt32Class, <<1, 2>>, LongName, MiInt32, <<1, 515>>, <<>>)

DCplx == Num(FlagComplex + MxInt8Class, <<1, 3>>, <<122, 122>>, MiInt8,
             <<1, -1, 3>>, <<4, 5, -6>>)

DI16 == Num(MxInt16Class, <<2, 1, 1>>, <<>>, MiInt16, <<258, -2>>, <<>>)

DChar == Char(<<1, 2>>, <<116>>, <<104, 105>>)

DCell == Cell(<<1, 2>>, <<99>>, <<DDbl, DI16>>)

DCellChar == Cell(<<1, 2>>, <<100>>, <<DChar, DDbl>>)

DCellNest == Cell(<<1, 2>>, <<101>>, <<Cell(<<1, 1>>, <<102>>, <<DI16>>), DDbl>>)

DStruct == Struct(<<1, 1>>, <<115>>, 4, <<(<<120>>), <<121, 121>>>>, <<DDbl, DI16>>)

DSparse == Num(5, <<1, 1>>, <<112>>, MiDouble, <<Two>>, <<>>)

DDims4 == Num(MxInt32Class, <<1, 2, 1, 1>>, <<113>>, MiInt32, <<7, 8>>, <<>>)

\* the matrix body of the decoder tests, little-endian
verySimpleMatrix ==
  <<6, 0, 0, 0, 8, 0, 0, 0, 6, 0, 0, 0, 1, 0, 0, 0,
    5, 0, 0, 0, 8, 0, 0, 0, 3, 0, 0, 0, 3, 0, 0, 0,
    1, 0, 0, 0, 6, 0, 0, 0, 77, 97, 84, 114, 73, 120, 0, 0,
    9, 0, 0, 0, 72, 0, 0, 0, 0, 0, 0, 0, 0, 0, 240, 63,
    0, 0, 0, 0, 0, 0, 0, 0, 0, 0, 0, 0, 0, 0, 240, 63,
    0, 0, 0, 0, 0, 0, 0, 0, 0, 0, 0, 0, 0, 0, 240, 63,
    0, 0, 0, 0, 0, 0, 0, 0, 0, 0, 0, 0, 0, 0, 240, 63,
    0, 0, 0, 0, 0, 0, 0, 0, 0, 0, 0, 0, 0, 0, 240, 63>>

One == <<63, 240, 0, 0, 0, 0, 0, 0>>

\* what the tests expect of verySimpleMatrix
ExpFixture ==
  MatMatrix(<<77, 97, 84, 114, 73, 120>>, 6, 6, [X |-> 3, Y |-> 3, Z |-> 0],
            [t |-> "NumPrt",
             RealPart |-> List([i \in 1..9 |->
                                  Scalar("float64",
                                         IF i % 2 = 1 THEN One ELSE Zeros(8))]),
             ImaginaryPart |-> Nil])

\* one numeric matrix for each of the integer classes 8..15
ClassNames ==
  [c8 |-> MxInt8Class, c9 |-> MxUint8Class, c10 |-> MxInt16Class,
   c11 |-> MxUint16Class, c12 |-> MxInt32Class, c13 |-> MxUint32Class,
   c14 |-> MxInt64Class, c15 |-> MxUint64Class]

ClassType(class) ==
  CASE class = MxInt8Class -> MiInt8 [] class = MxUint8Class -> MiUint8
    [] class = MxInt16Class -> MiInt16 [] class = MxUint16Class -> MiUint16
    [] class = MxInt32Class -> MiInt32 [] class = MxUint32Class -> MiUint32
    [] class = MxInt64Class -> MiInt64 [] class = MxUint64Class -> MiUint64

DClass(class) ==
  Num(class, <<1, 2>>, <<107>>, ClassType(class),
      IF Width(ClassType(class)) = 8 THEN <<Two, One>> ELSE <<1, 2>>, <<>>)

\* a numeric matrix with fewer values than its dimensions announce
DShortRe == Num(MxDoubleClass, <<1, 2>>, <<114>>, MiDouble, <<Two>>, <<>>)

DShortIm == Num(FlagComplex + MxInt8Class, <<1, 3>>, <<105>>, MiInt8,
                <<1, -1, 3>>, <<4, 5>>)

\* a 1x1 cell followed, inside its element, by one more matrix
DCellExtra == Cell(<<1, 1>>, <<103>>, <<DDbl, DI16>>)

\* a 1x2 struct array: two fields, two values for each
DStruct2 == Struct(<<1, 2>>, <<116>>, 4, <<(<<120>>), <<121, 121>>>>,
                   <<DDbl, DI16, DI16, DDbl>>)

\* a struct whose preamble announces a field name length of 0
DStructL0 == Struct(<<1, 1>>, <<117>>, 0, <<>>, <<>>)

\* the body of m from its Dimensions sub-element on
AfterFlags(order, m) == SubSeq(EncBody(order, m), 17, Len(EncBody(order, m)))

FlagsNames == {"flags0", "flags3", "flags4", "flags16", "flagsbig"}

\* well-formed top-level items: a matrix, or a compressed matrix
WellFormed ==
  [dbl |-> DDbl, long |-> DLong, cplx |-> DCplx, i16 |-> DI16, char |-> DChar,
   cell |-> DCell, cellchar |-> DCellChar, cellnest |-> DCellNest,
   struct |-> DStruct, sparse |-> DSparse]

WellFormedNames == DOMAIN WellFormed

CompressedNames == {"z:dbl", "z:cell", "z:long"}

Uncompressed(name) ==
  CASE name = "z:dbl" -> "dbl" [] name = "z:cell" -> "cell"
    [] name = "z:long" -> "long" [] OTHER -> name

\* a top-level element with an 8-byte tag and the payload as it is
Raw(order, dataType, payload) == EncTag(order, dataType, Len(payload)) \o payload

Compressed(order, bytes) == Raw(order, MiCompressed, ZStore(bytes))

\* a matrix element whose body is the prefix of m and then the given bytes
Body(order, m, rest) ==
  Raw(order, MiMatrix, EncPrefix(order, m) \o rest)

\* the matrix DDbl with an Array Flags tag that announces n bytes
FlagsSized(order, n, payload) ==
  Raw(order, MiMatrix,
      EncTag(order, MiUint32, n) \o payload \o AfterFlags(order, DDbl))

SmallElement(order) == EncSmall(order, MiUint32, <<1, 3, 3, 7>>)

TwoInts(order) == EncVals(order, MiInt32, <<258, 3>>)

\* a struct with one field, a matrix whose real part has the dataType 42
StructBadRe(order) ==
  Raw(order, MiMatrix,
      EncPrefix(order, Struct(<<1, 1>>, <<115>>, 4, <<(<<120>>)>>, <<>>))
      \o EncSmall(order, MiInt32, EncInt(order, 4, 4))
      \o EncTag(order, MiInt8, 4) \o Pad(<<120, 0, 0, 0>>, 8)
      \o Body(order, DDbl, Raw(order, 42, Zeros(8))))

\* an int32 element whose byteCount is not a multiple of 4
OddInts(order) == Raw(order, MiInt32, TwoInts(order) \o <<1, 2>>)

OtherNames ==
  {"i32s", "u8s", "unk", "unk0", "utf8", "nested15", "small", "z:i32s",
   "z:small", "z:unk", "res16", "res8", "res2", "badre", "badim", "baddims",
   "dims4", "badname", "zbad", "zshort", "ztrunc", "zsum", "zempty", "empty14",
   "i32odd", "z:i32odd", "structbadre", "shortre", "shortim", "cellextra",
   "struct2", "utf16", "utf32", "structl0"}
  \cup FlagsNames \cup DOMAIN ClassNames

ItemBytes(order, name) ==
  CASE name \in WellFormedNames -> EncElement(order, WellFormed[name])
    [] name \in CompressedNames ->
         Compressed(order, EncElement(order, WellFormed[Uncompressed(name)]))
    [] name = "i32s" -> Raw(order, MiInt32, TwoInts(order))
    [] name = "u8s" -> Raw(order, MiUint8, <<1, 200, 3>>)
    [] name = "unk" -> Raw(order, 42, Zeros(8))
    [] name = "unk0" -> Raw(order, 42, <<>>)
    [] name = "utf8" -> Raw(order, MiUtf8, <<104, 105, 0, 0, 0, 0, 0, 0>>)
    [] name = "nested15" ->
         Compressed(order, Compressed(order, EncElement(order, DDbl)))
    [] name = "small" -> SmallElement(order)
    [] name = "z:i32s" -> Compressed(order, Raw(order, MiInt32, TwoInts(order)))
    [] name = "z:small" -> Compressed(order, SmallElement(order))
    [] name = "z:unk" -> Compressed(order, Raw(order, 42, Zeros(8)))
    [] name = "res16" ->
         Raw(order, MiMatrix,
             EncBody(order, DDbl) \o Raw(order, MiInt32, TwoInts(order)))
    [] name = "res8" ->
         Raw(order, MiMatrix, EncBody(order, DDbl) \o EncTag(order, MiInt32, 0))
    [] name = "res2" -> Raw(order, MiMatrix, EncBody(order, DDbl) \o <<0, 0>>)
    [] name = "badre" -> Body(order, DDbl, Raw(order, 42, Zeros(8)))
    [] name = "badim" ->
         Body(order, DCplx,
              EncSub(order, MiInt8, <<1, 2, 3>>) \o Raw(order, 42, Zeros(8)))
    [] name = "baddims" ->
         Raw(order, MiMatrix,
             EncTag(order, MiUint32, 8) \o EncInt(order, MxDoubleClass, 4)
             \o EncInt(order, 0, 4) \o Raw(order, 42, Zeros(8))
             \o EncSub(order, MiInt8, <<97>>)
             \o EncSub(order, MiDouble, Rev(Two)))
    [] name = "dims4" -> EncElement(order, DDims4)
    [] name = "badname" ->
         Raw(order, MiMatrix,
             EncTag(order, MiUint32, 8) \o EncInt(order, MxDoubleClass, 4)
             \o EncInt(order, 0, 4)
             \o EncSub(order, MiInt32, EncVals(order, MiInt32, <<1, 1>>))
             \o EncTag(order, MiInt8, 17))
    [] name = "zbad" -> Raw(order, MiCompressed, <<0, 0, 0, 0>>)
    [] name = "zshort" -> Raw(order, MiCompressed, <<120>>)
    [] name = "ztrunc" ->
         LET z == ZStore(EncElement(order, DDbl))
         IN  Raw(order, MiCompressed, SubSeq(z, 1, Len(z) - 20))
    [] name = "zsum" ->
         LET z == ZStore(EncElement(order, DDbl))
         IN  Raw(order, MiCompressed, SubSeq(z, 1, Len(z) - 1) \o <<0>>)
    [] name = "zempty" -> Raw(order, MiCompressed, ZStore(<<>>))
    [] name = "empty14" -> Raw(order, MiMatrix, <<>>)
    [] name = "structbadre" -> StructBadRe(order)
    [] name = "i32odd" -> OddInts(order)
    [] name = "z:i32odd" -> Compressed(order, OddInts(order))
    [] name = "fixture" -> Raw(order, MiMatrix, verySimpleMatrix)
    [] name \in DOMAIN ClassNames -> EncElement(order, DClass(ClassNames[name]))
    [] name = "shortre" -> EncElement(order, DShortRe)
    [] name = "shortim" -> EncElement(order, DShortIm)
    [] name = "cellextra" -> EncElement(order, DCellExtra)
    [] name = "struct2" -> EncElement(order, DStruct2)
    [] name = "structl0" -> EncElement(order, DStructL0)
    [] name = "utf16" ->
         Raw(order, MiUtf16, EncVals(order, MiUint16, <<104, 105, 106, 107>>))
    [] name = "utf32" -> Raw(order, MiUtf32, EncVals(order, MiUint32, <<104, 105>>))
    [] name = "flags0" -> FlagsSized(order, 0, <<>>)
    [] name = "flags3" -> FlagsSized(order, 3, Zeros(8))
    [] name = "flags4" ->
         FlagsSized(order, 4, EncInt(order, MxDoubleClass, 4) \o Zeros(4))
    [] name = "flags16" ->
         FlagsSized(order, 16, EncInt(order, MxDoubleClass, 4) \o Zeros(12))
    [] name = "flagsbig" ->
         FlagsSized(order, 200, EncInt(order, MxDoubleClass, 4) \o Zeros(4))

ItemNames == WellFormedNames \cup CompressedNames \cup OtherNames \cup {"fixture"}

\* the byteCount announced by the outer tag of an item
ItemByteCount(order, name) == Len(ItemBytes(order, name)) - 8

Header(ind) == [i \in 1..124 |-> 32] \o <<1, 0>> \o ind

MI == <<77, 73>>

IndicatorOf(order) == IF order = "LE" THEN LittleEndianIndicator ELSE MI

Document(enc, ind, items, cut) ==
  [enc |-> enc, ind |-> ind, items |-> items, cut |-> cut]

FileOf(d) ==
  LET all == Header(d.ind)
             \o Concat([i \in 1..Len(d.items) |-> ItemBytes(d.enc, d.items[i])])
  IN  SubSeq(all, 1, Len(all) - d.cut)

SeqsUpTo(S, n) == UNION {[1..k -> S] : k \in 0..n}

Orders == {"LE", "BE"}

\* the items that files of several well-formed items are made of
SequenceNames == {"dbl", "char", "cellchar", "struct", "sparse", "z:long"}

\* files of well-formed items only: each item alone, and every sequence of
\* up to MaxItems of the items above
DocsWellFormed ==
  {Document(o, IndicatorOf(o), items, 0) :
     o \in Orders,
     items \in SeqsUpTo(SequenceNames, MaxItems)
                \cup {<<x>> : x \in WellFormedNames \cup CompressedNames}}

\* files with one item of the other kinds, alone or followed by a matrix
DocsOther ==
  {Document(o, IndicatorOf(o), items, 0) :
     o \in Orders,
     items \in {<<x>> : x \in OtherNames} \cup {<<x, "dbl">> : x \in OtherNames}}

\* files that end early: inside the header, inside a tag, after a complete
\* tag, inside a payload
CutItems == {<<"dbl">>, <<"long", "dbl">>, <<"z:dbl">>, <<"i32s">>}

DocsCut ==
  {Document(o, IndicatorOf(o), <<>>, c) : o \in Orders, c \in {1, 2, HeaderSize}}
  \cup
  UNION {{Document(o, IndicatorOf(o), items, c) :
            c \in LET l == Len(ItemBytes(o, items[Len(items)]))
                  IN  {1, l - 9, l - 8, l - 4, l - 1}} :
         o \in Orders, items \in CutItems}

\* files whose endian indicator is not the one of their byte order
Indicators == {LittleEndianIndicator, MI, <<0, 0>>, <<73, 73>>, <<77, 77>>, <<105, 109>>}

DocsIndicator ==
  {Document(o, ind, items, 0) :
     o \in Orders, ind \in Indicators, items \in {<<"i32s">>, <<"dbl", "i32s">>}}

\* the file of the decoder tests: verySimpleMatrix as the only element
DocsFixture == {Document("LE", IndicatorOf("LE"), <<"fixture">>, 0)}

Docs ==
  DocsWellFormed \cup DocsOther \cup DocsCut \cup DocsIndicator \cup DocsFixture

(***************************************************************************)
(* The reader as a state machine: Open, ReadDataElement, Close.            *)
(***************************************************************************)
NoUnit == [fn |-> "none"]

Init ==
  /\ doc \in Docs
  /\ file = FileOf(doc)
  /\ pos = 0
  /\ handle = "none"
  /\ byteSwapping = FALSE
  /\ endianIndicator = <<>>
  /\ calls = 0
  /\ rets = <<>>
  /\ unit = NoUnit

Open ==
  /\ handle = "none"
  /\ LET h == readHeader(file)
     IN  /\ pos' = h.pos
         /\ IF h.st = "ok"
              THEN /\ handle' = "open"
                   /\ byteSwapping' = h.byteSwapping
                   /\ endianIndicator' = h.endianIndicator
              ELSE /\ handle' = "failed"
                   /\ UNCHANGED <<byteSwapping, endianIndicator>>
  /\ UNCHANGED <<doc, file, calls, rets, unit>>

ReadDataElement ==
  /\ handle = "open"
  /\ calls < MaxCalls
  /\ \E r \in {readDataElementField(file, pos, OrderOf(byteSwapping))} :
       /\ pos' = r.pos
       /\ rets' = Append(rets, [ret |-> r.ret, order |-> OrderOf(byteSwapping),
                                from |-> pos, to |-> r.pos])
       /\ handle' = CASE r.ret.st = "panic" -> "crashed"
                      [] r.ret.st = "hang" -> "hung"
                      [] OTHER -> handle
  /\ calls' = calls + 1
  /\ UNCHANGED <<doc, file, byteSwapping, endianIndicator, unit>>

Close ==
  /\ handle = "open"
  /\ handle' = "closed"
  /\ UNCHANGED <<doc, file, pos, byteSwapping, endianIndicator, calls, rets, unit>>

Next == Open \/ ReadDataElement \/ Close

Spec == Init /\ [][Next]_vars

(***************************************************************************)
(* The tag decoder on its own.  src/datatypes.go holds the io.Reader       *)
(* revision of the decoders; its extractTag reads from a stream, modelled  *)
(* as the sequence of the bytes not yet read.                              *)
(***************************************************************************)
\* readMatfBytes: [st, err, data, rest]
readMatfBytes(r, numberOfBytes) ==
  IF numberOfBytes = 0
    THEN [st |-> "err", err |-> Err("readMatfBytes(): will not read 0 bytes", 0),
          rest |-> r]
  ELSE IF BinaryReadErr(MkSlice(r), numberOfBytes) # NoErr
    THEN [st |-> "err", err |-> BinaryReadErr(MkSlice(r), numberOfBytes),
          rest |-> <<>>]
  ELSE [st |-> "ok", data |-> SubSeq(r, 1, numberOfBytes),
        rest |-> SubSeq(r, numberOfBytes + 1, Len(r))]

\* the standard format once the second word has been read
TagExtended(order, data, extend) ==
  IF extend.st # "ok"
    THEN [st |-> "err", err |-> Err("Unable to read 4 bytes", 0),
          rest |-> extend.rest]
  ELSE [st |-> "ok", dataType |-> Uint32(order, MkSlice(data)),
        numberOfBytes |-> Uint32(order, MkSlice(extend.data)), offset |-> 8,
        rest |-> extend.rest]

\* extractTag of src/datatypes.go once the first word w has been read
TagWord(order, w) ==
  IF w.st # "ok"
    THEN [st |-> "err", err |-> Err("Unable to read 4 bytes", 0), rest |-> w.rest]
  ELSE IF w.data[3] # w.data[4] /\ order = "LE"
    THEN [st |-> "ok", dataType |-> Uint16(order, MkSlice(SubSeq(w.data, 1, 2))),
          numberOfBytes |-> Uint16(order, MkSlice(SubSeq(w.data, 3, 4))),
          offset |-> 4, rest |-> w.rest]
  ELSE TagExtended(order, w.data, readMatfBytes(w.rest, 4))

extractTagReader(r, order) == TagWord(order, readMatfBytes(r, 4))

\* small data elements: a scalar dataType and 1 to 4 bytes of payload
ScalarTypes ==
  {MiInt8, MiUint8, MiInt16, MiUint16, MiInt32, MiUint32, MiSingle, MiDouble,
   MiInt64, MiUint64}

SmallPayloads == {<<1>>, <<1, 3>>, <<1, 3, 3>>, <<1, 3, 3, 7>>}

TagInit ==
  /\ doc = Document("LE", IndicatorOf("LE"), <<>>, 0)
  /\ file = <<>>
  /\ pos = 0
  /\ handle = "none"
  /\ byteSwapping = FALSE
  /\ endianIndicator = <<>>
  /\ calls = 0
  /\ rets = <<>>
  /\ \E o \in Orders, t \in ScalarTypes, p \in SmallPayloads :
       unit = [fn |-> "extractTag", order |-> o, dataType |-> t, payload |-> p,
               data |-> EncSmall(o, t, p), done |-> {},
               slice |-> Nil, reader |-> Nil]

\* extractTag of the program on the bytes of the small element
ExtractTag ==
  /\ unit.fn = "extractTag"
  /\ "slice" \notin unit.done
  /\ unit' = [unit EXCEPT !.done = @ \cup {"slice"},
                          !.slice = extractTag(MkSlice(unit.data), unit.order)]
  /\ UNCHANGED <<doc, file, pos, handle, byteSwapping, endianIndicator, calls, rets>>

\* extractTag of src/datatypes.go on a stream of the same bytes
ExtractTagReader ==
  /\ unit.fn = "extractTag"
  /\ "reader" \notin unit.done
  /\ unit' = [unit EXCEPT !.done = @ \cup {"reader"},
                          !.reader = extractTagReader(unit.data, unit.order)]
  /\ UNCHANGED <<doc, file, pos, handle, byteSwapping, endianIndicator, calls, rets>>

TagNext == ExtractTag \/ ExtractTagReader

SpecTag == TagInit /\ [][TagNext]_vars

(***************************************************************************)
(* The other decoders of src/datatypes.go, the stream revision.  Each      *)
(* result carries rest, the bytes of the stream not yet read.  The matrix  *)
(* decoder of that revision is not among the sources: extractDataElement   *)
(* is modelled for every dataType but MiMatrix.                            *)
(***************************************************************************)
\* extractDataElement once the scalar loop has returned s
ScalarsRead(s, rest) ==
  IF s.st = "ok"
    THEN [st |-> "ok", element |-> s.element, i |-> s.i, rest |-> rest]
  ELSE IF s.st = "err" THEN [st |-> "err", err |-> s.err, rest |-> rest]
  ELSE s

\* extractDataElement once readMatfBytes has returned d
ElementRead(order, dataType, numberOfBytes, d) ==
  IF d.st # "ok" THEN [st |-> "err", err |-> d.err, rest |-> d.rest]
  ELSE ScalarsRead(ScalarLoop(MkSlice(d.data), order, dataType, numberOfBytes,
                              0, <<>>),
                   d.rest)

extractDataElementReader(r, order, dataType, numberOfBytes) ==
  IF dataType = MiMatrix THEN [st |-> "matrix"]
  ELSE ElementRead(order, dataType, numberOfBytes, readMatfBytes(r, numberOfBytes))

\* extractNumeric once extractDataElement has returned e for the tag t
NumericRead(t, e) ==
  IF e.st = "ok"
    THEN [st |-> "ok", re |-> e.element, used |-> t.offset + t.numberOfBytes,
          rest |-> e.rest]
  ELSE IF e.st = "err"
    THEN [st |-> "err", err |-> e.err, re |-> Nil, used |-> 0, rest |-> e.rest]
  ELSE e

\* extractNumeric once extractTag has returned t
NumericTagRead(order, t) ==
  IF t.st # "ok"
    THEN [st |-> "err", err |-> t.err, re |-> Nil, used |-> 0, rest |-> t.rest]
  ELSE NumericRead(t, extractDataElementReader(t.rest, order, t.dataType,
                                               t.numberOfBytes))

extractNumericReader(r, order) == NumericTagRead(order, extractTagReader(r, order))

\* extractArrayName once readMatfBytes has returned n for the tag t
NameRead(t, n) ==
  IF n.st # "ok"
    THEN [st |-> "err", err |-> Err("Unable to read bytes", t.numberOfBytes),
          name |-> <<>>, step |-> t.offset, rest |-> n.rest]
  ELSE [st |-> "ok", name |-> n.data, step |-> t.offset + t.numberOfBytes,
        rest |-> n.rest]

\* extractArrayName once extractTag has returned t
NameTagRead(t) ==
  IF t.st # "ok"
    THEN [st |-> "err", err |-> t.err, name |-> <<>>, step |-> 0, rest |-> t.rest]
  ELSE IF t.numberOfBytes = 0
    THEN [st |-> "ok", name |-> <<>>, step |-> t.offset, rest |-> t.rest]
  ELSE NameRead(t, readMatfBytes(t.rest, t.numberOfBytes))

extractArrayNameReader(r, order) == NameTagRead(extractTagReader(r, order))

\* extractFieldNames once the loop has returned l
FieldNamesDone(l, rest) ==
  IF l.st # "ok" THEN l ELSE [st |-> "ok", names |-> l.names, rest |-> rest]

\* extractFieldNames once readMatfBytes has returned d
FieldNamesRead(fieldNameLength, numberOfFields, d) ==
  IF d.st # "ok"
    THEN [st |-> "err", err |-> d.err, names |-> <<>>, rest |-> d.rest]
  ELSE FieldNamesDone(FieldNamesLoop(MkSlice(d.data), fieldNameLength,
                                     numberOfFields, 0, <<>>),
                      d.rest)

extractFieldNamesReader(r, fieldNameLength, numberOfFields) ==
  IF fieldNameLength * numberOfFields = 0
    THEN [st |-> "ok", names |-> <<>>, rest |-> r]
  ELSE FieldNamesRead(fieldNameLength, numberOfFields,
                      readMatfBytes(r, fieldNameLength * numberOfFields))

(***************************************************************************)
(* The decoders on their own: extractDataElement, extractNumeric,          *)
(* extractArrayName, extractFieldNames, extractTag and readMatfBytes are   *)
(* applied to one input each, in the slice revision of the program and in  *)
(* the stream revision of src/datatypes.go.                                *)
(***************************************************************************)
UnitInput(fn, order, data, about) ==
  [fn |-> fn, order |-> order, data |-> data, about |-> about, done |-> {},
   slice |-> Nil, reader |-> Nil]

\* the values payloads are made of; 64-bit values are given by their bytes
ScalarValues(t) ==
  CASE t = MiInt8 -> {-128, -1, 3}
    [] t = MiUint8 -> {0, 3, 200}
    [] t = MiInt16 -> {-32768, -2, 258}
    [] t = MiUint16 -> {3, 258, 65535}
    [] t = MiInt32 -> {-16909060, -1, 2147483647}
    [] t \in {MiUint32, MiSingle} -> {3, 117637889, 2147483647}
    [] t \in {MiInt64, MiUint64, MiDouble} -> {One, Two, <<255, 254, 3, 4, 5, 6, 7, 8>>}

ValSeqs(t) == UNION {[1..k -> ScalarValues(t)] : k \in 1..MaxVals}

\* a payload of the values v announced with a byteCount that is short bytes
\* less than the payload, in a buffer that holds extra bytes more than the
\* byteCount
ScalarInputsOf(o, t, v) ==
  {UnitInput("extractDataElement", o,
             SubSeq(EncVals(o, t, v) \o <<9, 9>>, 1,
                    Len(EncVals(o, t, v)) - short + extra),
             [dataType |-> t, numberOfBytes |-> Len(EncVals(o, t, v)) - short,
              vals |-> v]) :
     short \in (IF Width(t) > 1 THEN {0, 1} ELSE {0}), extra \in {0, 1, 2}}

\* the inputs of TestExtractDataElement
TestBytes == <<17, 34, 51, 68>>

TestValue64 == <<68, 51, 34, 17, 68, 51, 34, 17>>

TestScalar(o, t, data, n, v) ==
  UnitInput("extractDataElement", o, data,
            [dataType |-> t, numberOfBytes |-> n, vals |-> v])

TestScalars ==
  {TestScalar("LE", 42, TestBytes, 42, <<>>),
   TestScalar("LE", MiInt8, TestBytes, 1, <<17>>),
   TestScalar("LE", MiUint8, TestBytes, 1, <<17>>),
   TestScalar("LE", MiInt16, TestBytes, 2, <<8721>>),
   TestScalar("LE", MiUint16, TestBytes, 2, <<8721>>),
   TestScalar("LE", MiInt32, TestBytes, 4, <<1144201745>>),
   TestScalar("LE", MiUint32, TestBytes, 4, <<1144201745>>),
   TestScalar("BE", MiInt32, TestBytes, 4, <<287454020>>),
   TestScalar("BE", MiUint32, TestBytes, 4, <<287454020>>),
   TestScalar("BE", MiSingle, TestBytes, 4, <<287454020>>),
   TestScalar("LE", MiInt64, TestBytes \o TestBytes, 8, <<TestValue64>>),
   TestScalar("LE", MiUint64, TestBytes \o TestBytes, 8, <<TestValue64>>),
   TestScalar("LE", MiDouble, TestBytes \o TestBytes, 8, <<TestValue64>>)}

ScalarInputs ==
  UNION {UNION {ScalarInputsOf(o, t, v) : o \in Orders, v \in ValSeqs(t)} :
           t \in ScalarTypes}
  \cup TestScalars

\* a tagged run of scalars: with the tag its size selects, or with an 8-byte
\* tag and the payload padded to 8 bytes
NumericInput(fn, o, t, v, hdr, data) ==
  UnitInput(fn, o, data,
            [dataType |-> t, payload |-> EncVals(o, t, v), vals |-> v, hdr |-> hdr])

NumericInputsOf(o, t, v) ==
  {NumericInput("extractNumeric", o, t, v,
                IF Len(EncVals(o, t, v)) \in 1..4 THEN 4 ELSE 8,
                EncSub(o, t, EncVals(o, t, v))),
   NumericInput("extractNumeric", o, t, v, 8,
                EncTag(o, t, Len(EncVals(o, t, v))) \o Pad(EncVals(o, t, v), 8))}

\* the number of bytes the tag that full starts with is made of
TagSize(o, full) ==
  IF (IF o = "LE" THEN full[3] + full[4] # 0 ELSE full[1] + full[2] # 0)
    THEN 4 ELSE 8

\* the second word of the input, where a decoder reads it as a number of
\* bytes, is below 2^31 (a little-endian small tag has no second word; of a
\* big-endian input the decoders read the second word in every case)
Fits(o, data) ==
  (Len(data) >= 8 /\ (o = "BE" \/ TagSize(o, data) = 8))
    => data[IF o = "LE" THEN 8 ELSE 5] < 128

NumericInputs ==
  {u \in UNION {UNION {NumericInputsOf(o, t, v) :
                         o \in Orders, v \in ValSeqs(t) \cup {<<>>}} :
                  t \in ScalarTypes} : Fits(u.order, u.data)}

\* array names: the tag of an int8 run and the bytes of the name
NameSet == {<<>>, <<97>>, <<122, 122>>, <<77, 97, 84, 114, 73, 120>>, LongName}

NameInputsOf(o, name) ==
  {UnitInput("extractArrayName", o, EncSub(o, MiInt8, name),
             [name |-> name, hdr |-> IF Len(name) \in 1..4 THEN 4 ELSE 8]),
   UnitInput("extractArrayName", o,
             EncTag(o, MiInt8, Len(name)) \o Pad(name, 8),
             [name |-> name, hdr |-> 8])}

NameInputs == UNION {NameInputsOf(o, name) : o \in Orders, name \in NameSet}

\* inputs that end before their tag does: the first n bytes of a sub-element
ShortTags(o) ==
  {EncTag(o, MiDouble, 16), SmallElement(o), EncTag(o, MiInt8, 0),
   EncSub(o, MiInt8, <<122, 122>>), <<1, 16, 0, 0, 0, 0, 0, 0>>}

ShortInputs ==
  {UnitInput(fn, o, SubSeq(full, 1, n), [tagSize |-> TagSize(o, full)]) :
     fn \in {"extractTag", "extractNumeric", "extractArrayName"},
     o \in Orders, full \in UNION {ShortTags(x) : x \in Orders}, n \in 0..7}

\* field names: the bytes after the struct preamble, 'a', 'b', 'c', ...
FieldBlock == [i \in 1..(MaxNameLength * (MaxFields + 1)) |-> 96 + i]

FieldInputs ==
  {UnitInput("extractFieldNames", o, FieldBlock,
             [fieldNameLength |-> l, fieldsByteCount |-> b]) :
     o \in Orders, l \in 1..MaxNameLength, b \in 0..(MaxNameLength * MaxFields)}

\* reads of n bytes from a stream that holds m bytes
ReadInputs ==
  {UnitInput("readMatfBytes", o, SubSeq(FieldBlock, 1, m), [numberOfBytes |-> n]) :
     o \in Orders, m \in 0..MaxRead, n \in 0..(MaxRead + 1)}

UnitInputs ==
  ScalarInputs \cup NumericInputs \cup NameInputs \cup ShortInputs
  \cup FieldInputs \cup ReadInputs

UnitInit ==
  /\ doc = Document("LE", IndicatorOf("LE"), <<>>, 0)
  /\ file = <<>>
  /\ pos = 0
  /\ handle = "none"
  /\ byteSwapping = FALSE
  /\ endianIndicator = <<>>
  /\ calls = 0
  /\ rets = <<>>
  /\ unit \in UnitInputs

\* one decoder of the program applied to the input: its result is unit.slice
Applied(fn, result) ==
  /\ unit.fn = fn
  /\ "slice" \notin unit.done
  /\ unit' = [unit EXCEPT !.done = @ \cup {"slice"}, !.slice = result]
  /\ UNCHANGED <<doc, file, pos, handle, byteSwapping, endianIndicator, calls, rets>>

\* one decoder of src/datatypes.go applied to a stream of the same bytes
AppliedReader(fn, result) ==
  /\ unit.fn = fn
  /\ "reader" \notin unit.done
  /\ unit' = [unit EXCEPT !.done = @ \cup {"reader"}, !.reader = result]
  /\ UNCHANGED <<doc, file, pos, handle, byteSwapping, endianIndicator, calls, rets>>

ExtractDataElement ==
  /\ unit.fn = "extractDataElement"
  /\ Applied("extractDataElement",
             extractDataElement(MkSlice(unit.data), unit.order,
                                unit.about.dataType, unit.about.numberOfBytes))

ExtractDataElementReader ==
  /\ unit.fn = "extractDataElement"
  /\ AppliedReader("extractDataElement",
                   extractDataElementReader(unit.data, unit.order,
                                            unit.about.dataType,
                                            unit.about.numberOfBytes))

ExtractNumeric ==
  /\ unit.fn = "extractNumeric"
  /\ Applied("extractNumeric", extractNumeric(MkSlice(unit.data), unit.order))

ExtractNumericReader ==
  /\ unit.fn = "extractNumeric"
  /\ AppliedReader("extractNumeric", extractNumericReader(unit.data, unit.order))

ExtractArrayName ==
  /\ unit.fn = "extractArrayName"
  /\ Applied("extractArrayName", extractArrayName(MkSlice(unit.data), unit.order))

ExtractArrayNameReader ==
  /\ unit.fn = "extractArrayName"
  /\ AppliedReader("extractArrayName",
                   extractArrayNameReader(unit.data, unit.order))

\* numberOfFields is fieldsByteCount / fieldNameLength and the names are read
\* from the numberOfFields * fieldNameLength bytes after the preamble
ExtractFieldNames ==
  /\ unit.fn = "extractFieldNames"
  /\ Applied("extractFieldNames",
             extractFieldNames(
               Sub(MkSlice(unit.data), 0,
                   unit.about.fieldNameLength
                   * (unit.about.fieldsByteCount \div unit.about.fieldNameLength)),
               unit.about.fieldNameLength,
               unit.about.fieldsByteCount \div unit.about.fieldNameLength))

ExtractFieldNamesReader ==
  /\ unit.fn = "extractFieldNames"
  /\ AppliedReader("extractFieldNames",
                   extractFieldNamesReader(
                     unit.data, unit.about.fieldNameLength,
                     unit.about.fieldsByteCount \div unit.about.fieldNameLength))

ReadMatfBytes ==
  /\ unit.fn = "readMatfBytes"
  /\ AppliedReader("readMatfBytes",
                   readMatfBytes(unit.data, unit.about.numberOfBytes))

UnitNext ==
  \/ ExtractTag
  \/ ExtractTagReader
  \/ ExtractDataElement
  \/ ExtractDataElementReader
  \/ ExtractNumeric
  \/ ExtractNumericReader
  \/ ExtractArrayName
  \/ ExtractArrayNameReader
  \/ ExtractFieldNames
  \/ ExtractFieldNamesReader
  \/ ReadMatfBytes

SpecUnit == UnitInit /\ [][UnitNext]_vars

(***************************************************************************)
(* What the properties below read off a state.                             *)
(***************************************************************************)
Calls == 1..Len(rets)

\* the file is complete and its indicator names the order it is written in
Faithful(d) == d.cut = 0 /\ d.ind = IndicatorOf(d.enc)

\* where the k-th item of the document starts in the file
ItemStart(d, k) ==
  HeaderSize + Len(Concat([i \in 1..(k - 1) |-> ItemBytes(d.enc, d.items[i])]))

\* call k started at the k-th item of a faithful file
AtItem(k) ==
  /\ Faithful(doc)
  /\ k <= Len(doc.items)
  /\ rets[k].from = ItemStart(doc, k)

\* what ReadDataElement returns for some bytes alone in a file of order o
ReadAlone(o, bytes) ==
  readDataElementField(Header(IndicatorOf(o)) \o bytes, HeaderSize, o).ret

\* the outer tag of the element call k started at
TopType(k) ==
  Uint32(rets[k].order, MkSlice(SubSeq(file, rets[k].from + 1, rets[k].from + 4)))

TopCount(k) ==
  Uint32(rets[k].order, MkSlice(SubSeq(file, rets[k].from + 5, rets[k].from + 8)))

\* the tag and the announced payload are in the file
Complete(k) ==
  /\ rets[k].from + 8 <= Len(file)
  /\ rets[k].from + 8 + TopCount(k) <= Len(file)

Payload(k) == SubSeq(file, rets[k].from + 9, rets[k].from + 8 + TopCount(k))

\* what zlib makes of the payload of call k
Plain(k) == Inflate(Payload(k))

Inflates(k) == Plain(k).hdr /\ Plain(k).err = ErrEOF

\* the element call k is to decode: the payload under its outer tag, or the
\* inflated bytes under the 8-byte tag they start with
Described(k) ==
  /\ Complete(k)
  /\ TopType(k) = MiCompressed =>
       /\ Inflates(k)
       /\ Len(Plain(k).out) >= 8
       /\ Uint32(rets[k].order, MkSlice(SubSeq(Plain(k).out, 1, 4))) < 65536

EffType(k) ==
  IF TopType(k) = MiCompressed
    THEN Uint32(rets[k].order, MkSlice(SubSeq(Plain(k).out, 1, 4)))
    ELSE TopType(k)

EffCount(k) ==
  IF TopType(k) = MiCompressed
    THEN Uint32(rets[k].order, MkSlice(SubSeq(Plain(k).out, 5, 8)))
    ELSE TopCount(k)

Up8(n) == ((n + 7) \div 8) * 8

TwoIntsValue == List(<<Scalar("int32", 258), Scalar("int32", 3)>>)

WellFormedDoc(d) ==
  /\ Faithful(d)
  /\ \A i \in 1..Len(d.items) : d.items[i] \in WellFormedNames \cup CompressedNames

NumericNames == {"dbl", "long", "cplx", "i16"}

(***************************************************************************)
(* C1.  Top-level elements are produced in file order: in a file of        *)
(* well-formed elements call k starts at element k, consumes its 8 tag     *)
(* bytes and the byteCount of its outer tag, and what it returns is what   *)
(* element k decodes to (for a little-endian numeric matrix, the encoded   *)
(* name, flags, dimensions and values); no element is skipped or returned  *)
(* twice.                                                                  *)
(***************************************************************************)
C1_FileOrder ==
  WellFormedDoc(doc) =>
    \A k \in Calls : k <= Len(doc.items) =>
      /\ rets[k].from = ItemStart(doc, k)
      /\ rets[k].to = rets[k].from + 8 + ItemByteCount(doc.enc, doc.items[k])
      /\ rets[k].ret = ReadAlone(doc.enc, ItemBytes(doc.enc, doc.items[k]))
      /\ (doc.enc = "LE" /\ Uncompressed(doc.items[k]) \in NumericNames) =>
           /\ rets[k].ret.st = "ok"
           /\ rets[k].ret.dataType = MiMatrix
           /\ rets[k].ret.elements =
                <<ExpNum(WellFormed[Uncompressed(doc.items[k])])>>

C1_Witness ==
  /\ WellFormedDoc(doc)
  /\ Len(doc.items) = 2
  /\ Len(rets) >= 2
  /\ rets[1].ret.st = "ok"
  /\ rets[2].ret.st = "ok"
  /\ rets[1].ret.elements # rets[2].ret.elements
  /\ TopType(1) = MiCompressed
  /\ TopType(2) = MiMatrix

HeaderOrder == IF SubSeq(file, 127, 128) = <<73, 77>> THEN "LE" ELSE "BE"

(***************************************************************************)
(* C2.  The reader decodes little-endian exactly when bytes 126..127 of    *)
(* the header are 0x49, 0x4D; with any other two bytes every call decodes  *)
(* big-endian.  An int32 element written in the order the indicator        *)
(* selects is returned with its values.                                    *)
(***************************************************************************)
C2_ByteOrder ==
  /\ handle \notin {"none", "failed"} => (byteSwapping <=> HeaderOrder = "LE")
  /\ \A k \in Calls :
       /\ rets[k].order = HeaderOrder
       /\ rets[k].ret = readDataElementField(file, rets[k].from, HeaderOrder).ret
  /\ (Len(rets) >= 1 /\ doc.cut = 0 /\ Len(doc.items) >= 1
      /\ doc.items[1] = "i32s" /\ doc.enc = HeaderOrder) =>
       /\ rets[1].ret.st = "ok"
       /\ rets[1].ret.elements = <<TwoIntsValue>>

C2_Witness ==
  /\ Len(rets) >= 1
  /\ SubSeq(file, 127, 128) = <<105, 109>>
  /\ doc.enc = "BE"
  /\ rets[1].order = "BE"
  /\ rets[1].ret.st = "ok"
  /\ rets[1].ret.elements = <<TwoIntsValue>>

(***************************************************************************)
(* C3.  io.EOF is returned only when the file is exhausted before any byte *)
(* of the next tag; a file that ends inside a tag or inside the payload a  *)
(* tag announces yields another error.                                     *)
(***************************************************************************)
C3_EndOfInput ==
  \A k \in Calls :
    (rets[k].ret.st = "err" /\ rets[k].ret.err = ErrEOF) =>
      rets[k].from = Len(file)

ScalarWidth(t) ==
  CASE t \in {1, 2} -> 1 [] t \in {3, 4} -> 2 [] t \in {5, 6, 7} -> 4
    [] t \in {9, 12, 13} -> 8

C5_Transparent ==
  \A k \in Calls :
    (Complete(k) /\ TopType(k) = MiCompressed /\ Inflates(k)
     /\ Len(Plain(k).out) >= 8
     /\ Uint32(rets[k].order, MkSlice(SubSeq(Plain(k).out, 1, 4))) # MiCompressed) =>
      /\ rets[k].ret.st = ReadAlone(rets[k].order, Plain(k).out).st
      /\ rets[k].ret.dataType = ReadAlone(rets[k].order, Plain(k).out).dataType
      /\ rets[k].ret.elements = ReadAlone(rets[k].order, Plain(k).out).elements
      /\ rets[k].to = rets[k].from + 8 + TopCount(k)

(***************************************************************************)
(* C6.  A compressed payload that zlib cannot inflate (invalid header,     *)
(* stream failing part-way) makes the call return the decompression error. *)
(***************************************************************************)
C6_InflateError ==
  \A k \in Calls :
    (Complete(k) /\ TopType(k) = MiCompressed /\ ~Inflates(k)) =>
      /\ rets[k].ret.st = "err"
      /\ rets[k].ret.err = Plain(k).err

\* the first element of call k over an uncompressed matrix element
FirstOf(k) ==
  extractDataElement(MkSlice(Payload(k)), rets[k].order, MiMatrix, TopCount(k))

Residual(k) ==
  /\ Complete(k)
  /\ TopType(k) = MiMatrix
  /\ FirstOf(k).st = "ok"
  /\ FirstOf(k).i < TopCount(k)

C8_SubElementFailure ==
  \A k \in Calls :
    rets[k].ret.st = "ok" =>
      \A i \in 1..Len(rets[k].ret.steps) : rets[k].ret.steps[i].ok

(***************************************************************************)
(* C9.  For a small element (dataType and a byteCount of 1..4 packed into  *)
(* one 4-byte word, byteCount in the high half) in either byte order, the  *)
(* tag decoder returns (dataType, byteCount, 4), and the stream revision   *)
(* leaves the packed payload as the next bytes to read.                    *)
(***************************************************************************)
C9_SmallTag ==
  /\ "slice" \in unit.done =>
       unit.slice = TagResult(unit.dataType, Len(unit.payload), 4)
  /\ "reader" \in unit.done =>
       /\ unit.reader.st = "ok"
       /\ unit.reader.dataType = unit.dataType
       /\ unit.reader.numberOfBytes = Len(unit.payload)
       /\ unit.reader.offset = 4
       /\ unit.reader.rest = Pad(unit.payload, 4)

(***************************************************************************)
(* C10.  After each sub-element of a matrix the cursor is a multiple of 8, *)
(* the smallest one not below the start of the sub-element plus the size   *)
(* of its tag plus its byteCount.                                          *)
(***************************************************************************)
C10_Aligned ==
  \A k \in Calls :
    \A i \in 1..Len(rets[k].ret.steps) :
      /\ rets[k].ret.steps[i].end % 8 = 0
      /\ rets[k].ret.steps[i].end =
           Up8(rets[k].ret.steps[i].start + rets[k].ret.steps[i].hdr
               + rets[k].ret.steps[i].nb)

\* the sub-elements call k went through, by name
Subs(k) == [i \in 1..Len(rets[k].ret.steps) |-> rets[k].ret.steps[i].sub]

\* the sum of the 8-byte-aligned sizes of the sub-elements in steps
RECURSIVE Consumed(_)
Consumed(steps) ==
  IF steps = <<>> THEN 0
  ELSE Up8(Head(steps).hdr + Head(steps).nb) + Consumed(Tail(steps))

(***************************************************************************)
(* C11.  A well-formed numeric matrix body (Array Flags with 8 bytes,      *)
(* Dimensions, Array Name, real part and, when complex, imaginary part),   *)
(* in either byte order, decodes to the matrix with the encoded name,      *)
(* flags, class, dimensions and values; the sub-elements are consumed in   *)
(* the order flags, dimensions, name, body and the decoder reports as      *)
(* consumed the sum of their 8-byte-aligned sizes.  For verySimpleMatrix:  *)
(* 128 bytes, "MaTrIx", flags 6, class 6, dimensions (3,3,0), nine         *)
(* doubles.                                                                *)
(***************************************************************************)
C11_NumericMatrix ==
  \A k \in Calls :
    /\ (AtItem(k) /\ doc.items[k] \in NumericNames) =>
         /\ rets[k].ret.st = "ok"
         /\ rets[k].ret.elements = <<ExpNum(WellFormed[doc.items[k]])>>
         /\ Subs(k) = IF Bit(WellFormed[doc.items[k]].flags, FlagComplex) = 1
                        THEN <<"flags", "dims", "name", "real", "imag">>
                        ELSE <<"flags", "dims", "name", "real">>
         /\ FirstOf(k).i = Consumed(rets[k].ret.steps)
         /\ FirstOf(k).i = TopCount(k)
    /\ (AtItem(k) /\ doc.items[k] = "fixture") =>
         /\ rets[k].ret.st = "ok"
         /\ rets[k].ret.elements = <<ExpFixture>>
         /\ Subs(k) = <<"flags", "dims", "name", "real">>
         /\ FirstOf(k).i = 128
         /\ Consumed(rets[k].ret.steps) = 128

\* the first word of the Array Flags payload of the matrix element call k
\* started at, read in the byte order of the file
FlagsWord(k) == Uint32(rets[k].order, MkSlice(SubSeq(Payload(k), 9, 12)))

(***************************************************************************)
(* C12.  The flags word of a matrix is the first 4 bytes of the Array      *)
(* Flags payload read in the byte order of the file; the class is its low  *)
(* 4 bits and the matrix is complex when its bit 11 is set.  Checked on    *)
(* the well-formed numeric matrices of both byte orders.                   *)
(***************************************************************************)
C12_FlagsByteOrder ==
  \A k \in Calls :
    (AtItem(k) /\ doc.items[k] \in NumericNames) =>
      /\ rets[k].ret.st = "ok"
      /\ rets[k].ret.elements[1].Flags = FlagsWord(k)
      /\ rets[k].ret.elements[1].Class = FlagsWord(k) % 16
      /\ (rets[k].ret.elements[1].Content.ImaginaryPart # Nil)
           <=> Bit(FlagsWord(k), FlagComplex) = 1

\* the tag of the Array Flags sub-element of the matrix element of call k
FlagsTag(k) == extractTag(MkSlice(Payload(k)), rets[k].order)

(***************************************************************************)
(* C13.  A matrix whose Array Flags tag has a byteCount other than 8       *)
(* (0..3, 4, 16, more than the bytes that remain) makes the call return an *)
(* error: no crash, no matrix.                                             *)
(***************************************************************************)
C13_FlagsSize ==
  \A k \in Calls :
    (Complete(k) /\ TopType(k) = MiMatrix /\ TopCount(k) >= 8
     /\ FlagsTag(k).st = "ok" /\ FlagsTag(k).numberOfBytes # 8) =>
      /\ rets[k].ret.st = "err"
      /\ rets[k].ret.elements = <<>>

\* the tag of the Dimensions sub-element, after an Array Flags of 16 bytes
DimsTag(k) == extractTag(MkSlice(SubSeq(Payload(k), 17, 24)), rets[k].order)

(***************************************************************************)
(* C14.  A matrix whose Dimensions sub-element holds more than three       *)
(* int32 axes (byteCount above 12) is rejected: the call returns an error, *)
(* not a matrix with dimensions (0,0,0) or with truncated dimensions.      *)
(***************************************************************************)
C14_TooManyAxes ==
  \A k \in Calls :
    (Complete(k) /\ TopType(k) = MiMatrix /\ TopCount(k) >= 24
     /\ FlagsTag(k).st = "ok" /\ FlagsTag(k).offset = 8
     /\ FlagsTag(k).numberOfBytes = 8
     /\ DimsTag(k).st = "ok" /\ DimsTag(k).dataType = MiInt32
     /\ DimsTag(k).numberOfBytes > 12) =>
      rets[k].ret.st = "err"

\* the number of values a matrix of dimensions d holds; an axis that is not
\* encoded is decoded as 0 and counts as 1
DimsProduct(d) ==
  (IF d.X = 0 THEN 1 ELSE d.X) * (IF d.Y = 0 THEN 1 ELSE d.Y)
  * (IF d.Z = 0 THEN 1 ELSE d.Z)

IsNumeric(e) == e.t = "MatMatrix" /\ e.Content.t = "NumPrt"

(***************************************************************************)
(* C15.  Every numeric matrix a call returns has as many real values as    *)
(* the product of its decoded dimensions and, when its complex flag is     *)
(* set, an imaginary part with as many values as the real part.            *)
(***************************************************************************)
C15_NumericLength ==
  \A k \in Calls :
    rets[k].ret.st = "ok" =>
      \A i \in 1..Len(rets[k].ret.elements) :
        IsNumeric(rets[k].ret.elements[i]) =>
          /\ rets[k].ret.elements[i].Content.RealPart.t = "list"
          /\ Len(rets[k].ret.elements[i].Content.RealPart.v) =
               DimsProduct(rets[k].ret.elements[i].Dimensions)
          /\ Bit(rets[k].ret.elements[i].Flags, FlagComplex) = 1 =>
               /\ rets[k].ret.elements[i].Content.ImaginaryPart.t = "list"
               /\ Len(rets[k].ret.elements[i].Content.ImaginaryPart.v) =
                    Len(rets[k].ret.elements[i].Content.RealPart.v)

(***************************************************************************)
(* C16.  A matrix of any class 8..15 (int8 .. uint64, the 64-bit classes   *)
(* 14 and 15 included) is decoded as a numeric matrix with its values,     *)
(* like the classes 6 and 7.  Checked on little-endian files.              *)
(***************************************************************************)
C16_IntegerClasses ==
  \A k \in Calls :
    (AtItem(k) /\ doc.enc = "LE" /\ doc.items[k] \in DOMAIN ClassNames) =>
      /\ rets[k].ret.st = "ok"
      /\ rets[k].ret.elements = <<ExpNum(DClass(ClassNames[doc.items[k]]))>>

IsCell(e) == e.t = "MatMatrix" /\ e.Content.t = "CellPrt"

(***************************************************************************)
(* C17.  A cell matrix is returned with exactly dims.y children, whatever  *)
(* bytes follow in the buffer its body was decoded from: this holds for    *)
(* every cell a call returns and for every cell that is its child.         *)
(***************************************************************************)
C17_CellCount ==
  \A k \in Calls :
    rets[k].ret.st = "ok" =>
      \A i \in 1..Len(rets[k].ret.elements) :
        IsCell(rets[k].ret.elements[i]) =>
          /\ Len(rets[k].ret.elements[i].Content.Cells) =
               rets[k].ret.elements[i].Dimensions.Y
          /\ \A j \in 1..Len(rets[k].ret.elements[i].Content.Cells) :
               IsCell(rets[k].ret.elements[i].Content.Cells[j]) =>
                 Len(rets[k].ret.elements[i].Content.Cells[j].Content.Cells) =
                   rets[k].ret.elements[i].Content.Cells[j].Dimensions.Y

StructNames == [struct |-> DStruct, struct2 |-> DStruct2]

(***************************************************************************)
(* C18.  A struct matrix with fieldCount fields is returned with           *)
(* dims.y * fieldCount field values in on-wire order, value i (0-based)    *)
(* belonging to fieldNames[i mod fieldCount], and with its field names in  *)
(* their order.  Checked on little-endian 1x1 and 1x2 structs of two       *)
(* fields.                                                                 *)
(***************************************************************************)
C18_StructValues ==
  \A k \in Calls :
    (AtItem(k) /\ doc.enc = "LE" /\ doc.items[k] \in DOMAIN StructNames) =>
      /\ rets[k].ret.st = "ok"
      /\ Len(rets[k].ret.elements) = 1
      /\ rets[k].ret.elements[1].Content.FieldNames =
           [i \in 1..Len(StructNames[doc.items[k]].fieldNames) |->
              Pad(StructNames[doc.items[k]].fieldNames[i],
                  StructNames[doc.items[k]].fieldNameLength)]
      /\ Len(rets[k].ret.elements[1].Content.FieldValues) =
           rets[k].ret.elements[1].Dimensions.Y
           * Len(StructNames[doc.items[k]].fieldNames)
      /\ rets[k].ret.elements[1].Content.FieldValues =
           [i \in 1..Len(StructNames[doc.items[k]].kids) |->
              ExpNum(StructNames[doc.items[k]].kids[i])]

(***************************************************************************)
(* C19.  A data element whose tag has the unknown dataType 42 fails with   *)
(* "Data Type 42 is not supported" whatever its byteCount, 0 included:     *)
(* never another error, never an empty successful result.                  *)
(***************************************************************************)
C19_UnknownType ==
  \A k \in Calls :
    (Described(k) /\ EffType(k) = 42) =>
      /\ rets[k].ret.st = "err"
      /\ rets[k].ret.err = Err("Data Type is not supported", 42)

UtfWidth(t) == CASE t = MiUtf8 -> 1 [] t = MiUtf16 -> 2 [] t = MiUtf32 -> 4

(***************************************************************************)
(* C20.  A data element of dataType 16, 17 or 18 (utf8, utf16, utf32) is   *)
(* decoded into a list of byteCount / width scalars of width 1, 2 and 4    *)
(* bytes; it is not refused as unsupported.                                *)
(***************************************************************************)
C20_UtfScalars ==
  \A k \in Calls :
    (Described(k) /\ EffType(k) \in {MiUtf8, MiUtf16, MiUtf32}
     /\ EffCount(k) > 0 /\ EffCount(k) % UtfWidth(EffType(k)) = 0) =>
      /\ rets[k].ret.st = "ok"
      /\ rets[k].ret.dataType = EffType(k)
      /\ Len(rets[k].ret.elements) = 1
      /\ rets[k].ret.elements[1].t = "list"
      /\ Len(rets[k].ret.elements[1].v) = EffCount(k) \div UtfWidth(EffType(k))

\* the unit is a run of k >= 1 scalars of a supported type with byteCount k * w
WholeScalars ==
  /\ unit.fn = "extractDataElement"
  /\ unit.about.dataType \in ScalarTypes
  /\ Len(unit.about.vals) >= 1
  /\ unit.about.numberOfBytes = Len(unit.about.vals) * Width(unit.about.dataType)

\* C21: for every supported scalar type, both byte orders and every byteCount
\* k * w with k >= 1, extractDataElement returns the k values of the payload,
\* each the byte-order reading of its w bytes, in payload order, and reports
\* byteCount as the bytes consumed; the stream revision also leaves the
\* bytes after the payload unread.
C21_ScalarValues ==
  WholeScalars =>
    /\ "slice" \in unit.done =>
         /\ unit.slice.st = "ok"
         /\ unit.slice.element = ExpVals(unit.about.dataType, unit.about.vals)
         /\ unit.slice.i = unit.about.numberOfBytes
    /\ "reader" \in unit.done =>
         /\ unit.reader.st = "ok"
         /\ unit.reader.element = ExpVals(unit.about.dataType, unit.about.vals)
         /\ unit.reader.i = unit.about.numberOfBytes
         /\ unit.reader.rest
              = SubSeq(unit.data, unit.about.numberOfBytes + 1, Len(unit.data))

C21_Witness ==
  /\ WholeScalars
  /\ unit.order = "BE"
  /\ unit.about.dataType = MiInt16
  /\ unit.about.vals = <<-2, 258>>
  /\ unit.done = {"slice", "reader"}
  /\ unit.slice.element = List(<<Scalar("int16", -2), Scalar("int16", 258)>>)
  /\ unit.reader.i = 4

\* the unit is a tagged run of scalars and fn has been applied to it in the
\* revision rev
Decoded(fn, rev) == unit.fn = fn /\ rev \in unit.done /\ "hdr" \in DOMAIN unit.about

\* C22: extractNumeric returns, with the values of the payload, the size of
\* the tag (4 for a small tag, 8 for a standard one) plus the tag's
\* byteCount, padding not counted.
C22_NumericUsed ==
  /\ Decoded("extractNumeric", "slice") =>
       /\ unit.slice.st = "ok"
       /\ unit.slice.re = ExpVals(unit.about.dataType, unit.about.vals)
       /\ unit.slice.used = unit.about.hdr + Len(unit.about.payload)
  /\ (Decoded("extractNumeric", "reader") /\ unit.about.payload # <<>>) =>
       /\ unit.reader.st = "ok"
       /\ unit.reader.re = ExpVals(unit.about.dataType, unit.about.vals)
       /\ unit.reader.used = unit.about.hdr + Len(unit.about.payload)

\* C23: extractArrayName returns the payload of the tag as the name and the
\* size of the tag plus its byteCount as the step; a byteCount of 0 gives
\* the empty name, step 8 and no error, and no read of a payload.
C23_ArrayName ==
  /\ Decoded("extractArrayName", "slice") =>
       /\ unit.slice.st = "ok"
       /\ unit.slice.name = unit.about.name
       /\ unit.slice.step = unit.about.hdr + Len(unit.about.name)
  /\ Decoded("extractArrayName", "reader") =>
       /\ unit.reader.st = "ok"
       /\ unit.reader.name = unit.about.name
       /\ unit.reader.step = unit.about.hdr + Len(unit.about.name)
       /\ unit.about.name = <<>> => unit.reader.rest = <<>>

\* C24: a read of n bytes returns the next n bytes and advances by n, or
\* fails; a read of 0 bytes fails with 'will not read 0 bytes' and consumes
\* nothing, and the callers that can meet a zero length (an empty name, no
\* field names, an empty numeric payload) do not let it fail them.
C24_ZeroRead ==
  /\ (unit.fn = "readMatfBytes" /\ "reader" \in unit.done) =>
       IF unit.about.numberOfBytes = 0
         THEN /\ unit.reader.st = "err"
              /\ unit.reader.err = Err("readMatfBytes(): will not read 0 bytes", 0)
              /\ unit.reader.rest = unit.data
         ELSE \/ unit.reader.st = "err"
              \/ /\ unit.reader.st = "ok"
                 /\ unit.reader.data = SubSeq(unit.data, 1, unit.about.numberOfBytes)
                 /\ unit.reader.rest
                      = SubSeq(unit.data, unit.about.numberOfBytes + 1, Len(unit.data))
  /\ (Decoded("extractArrayName", "reader") /\ unit.about.name = <<>>) =>
       unit.reader.st = "ok"
  /\ (unit.fn = "extractFieldNames" /\ "reader" \in unit.done
      /\ unit.about.fieldsByteCount < unit.about.fieldNameLength) =>
       unit.reader.st = "ok"
  /\ (Decoded("extractNumeric", "reader") /\ unit.about.payload = <<>>) =>
       unit.reader.st = "ok"

\* the names the field-name block holds for the preamble of the unit
BlockNames ==
  [i \in 1..(unit.about.fieldsByteCount \div unit.about.fieldNameLength) |->
     SubSeq(FieldBlock, (i - 1) * unit.about.fieldNameLength + 1,
            i * unit.about.fieldNameLength)]

\* C25: extractFieldNames returns fieldsByteCount / fieldNameLength names in
\* the order of the block, the i-th being bytes [i*L, (i+1)*L) of the block.
C25_FieldNames ==
  unit.fn = "extractFieldNames" =>
    /\ "slice" \in unit.done =>
         unit.slice.st = "ok" /\ unit.slice.names = BlockNames
    /\ "reader" \in unit.done =>
         /\ unit.reader.st = "ok" /\ unit.reader.names = BlockNames
         /\ unit.reader.rest
              = SubSeq(unit.data, Len(BlockNames) * unit.about.fieldNameLength + 1,
                       Len(unit.data))

C25_Witness ==
  /\ unit.fn = "extractFieldNames"
  /\ unit.about.fieldNameLength = 3
  /\ unit.about.fieldsByteCount = 7
  /\ unit.done = {"slice", "reader"}
  /\ unit.slice.names = <<<<97, 98, 99>>, <<100, 101, 102>>>>
  /\ unit.reader.names = unit.slice.names

\* the unit is an input of fn that ends before its tag does
Truncated(fn) ==
  /\ unit.fn = fn
  /\ "tagSize" \in DOMAIN unit.about
  /\ Len(unit.data) < unit.about.tagSize

\* C26: on an input of 0..7 bytes that ends before its tag does, in either
\* byte order, extractTag, extractNumeric and extractArrayName return an
\* error and index nothing outside the input.
C26_ShortInput ==
  \A fn \in {"extractTag", "extractNumeric", "extractArrayName"} :
    Truncated(fn) =>
      /\ "slice" \in unit.done => unit.slice.st = "err"
      /\ "reader" \in unit.done => unit.reader.st = "err"

\* the unit is a run of scalars of a supported type whose byteCount is not a
\* multiple of the width of the type
PartScalars ==
  /\ unit.fn = "extractDataElement"
  /\ unit.about.dataType \in ScalarTypes
  /\ unit.about.numberOfBytes % Width(unit.about.dataType) # 0

\* C28: with a byteCount that is not a multiple of the width, the scalar
\* decoder returns an error: it reads no byte at or after byteCount.
C28_WithinByteCount ==
  PartScalars =>
    /\ "slice" \in unit.done => unit.slice.st = "err"
    /\ "reader" \in unit.done => unit.reader.st = "err"

\* C27: every call of ReadDataElement returns, a value or an error: none
\* stays in a loop whose cursor has stopped advancing (the loop over the
\* elements that follow the matrix inside a top-level element, when the read
\* of the next tag fails, is the one loop that can).
C27_Terminates == \A k \in Calls : rets[k].ret.st # "hang"

\* C29: a struct matrix whose preamble announces a field name length of 0
\* is refused with an error or returned with no field names; the call does
\* not end in the run-time panic of a division by zero.
C29_ZeroNameLength ==
  \A k \in Calls :
    (AtItem(k) /\ doc.items[k] = "structl0") =>
      \/ rets[k].ret.st = "err"
      \/ /\ rets[k].ret.st = "ok"
         /\ Len(rets[k].ret.elements) = 1
         /\ rets[k].ret.elements[1].Content.FieldNames = <<>>

CellNames == [cell |-> DCell, cellchar |-> DCellChar, cellnest |-> DCellNest]

\* C30: the children of a decoded cell are the matrices its element holds,
\* each decoded from the bytes of its own element: a child that is a cell
\* holds its own children only, a child that is a char array holds none,
\* and the matrix after such a child is a child of the outer cell.
C30_CellChildren ==
  \A k \in Calls :
    (AtItem(k) /\ doc.items[k] \in DOMAIN CellNames /\ rets[k].ret.st = "ok") =>
      /\ Len(rets[k].ret.elements) = 1
      /\ Len(rets[k].ret.elements[1].Content.Cells)
           = Len(CellNames[doc.items[k]].kids)
      /\ \A i \in 1..Len(CellNames[doc.items[k]].kids) :
           /\ rets[k].ret.elements[1].Content.Cells[i].Name
                = CellNames[doc.items[k]].kids[i].name
           /\ CellNames[doc.items[k]].kids[i].k = "cell" =>
                Len(rets[k].ret.elements[1].Content.Cells[i].Content.Cells)
                  = Len(CellNames[doc.items[k]].kids[i].kids)
           /\ CellNames[doc.items[k]].kids[i].k = "char" =>
                rets[k].ret.elements[1].Content.Cells[i].Content.CharValues = <<>>

=============================================================================
